---- MODULE Spec2Model ----
(***************************************************************************)
(* Connection supervisor, bot facade and request router of mcpmc.          *)
(*                                                                         *)
(* The supervisor is MineflayerBot (src/core/bot.ts): one object holding   *)
(* the current mineflayer instance, the isConnected / isConnecting flags,  *)
(* the reconnect counter and the reconnect timers it has scheduled.  The   *)
(* mineflayer instances are the external collaborator: each one delivers   *)
(* spawn, error, kicked and end events to the handlers setupBot attached   *)
(* to it, whether or not the supervisor still holds it.                    *)
(*                                                                         *)
(* The callbacks of all reconnect timers are the same and the events of    *)
(* the instances arrive at any time, so the timers are kept as the number  *)
(* of pending ones, any of which may fire at any step; the delay a timer   *)
(* was scheduled with is kept with the step that scheduled it.             *)
(***************************************************************************)
EXTENDS Integers, Sequences, FiniteSets, TLC

\* ---------------------------------------------------------------- bounds
MaxInstances == 4
MaxCallInstances == 2
MaxTerminal == 2
SweepRange == 1
MaxBlocks == 3
MaxDigInstances == 2
TransformRange == 2
MaxServerInstances == 2

\* ------------------------------------------------------ program constants
maxReconnectAttempts == 3
BackoffBaseMs == 5000

Hosts == {"h1", "h2"}
Ports == {25565}
Usernames == {"bot"}

\* ConnectionParams: version stands for the optional fields (version,
\* hideErrors) that the constructor's argument may carry.
ConnectionParamsSet ==
    [host : Hosts, port : Ports, username : Usernames, version : BOOLEAN]

\* A mineflayer instance: pending from createBot to its spawn, closing once
\* end() has been called on it, ended once its connection has ended.
\* settled tells whether the promise of the setupBot call that created it
\* has been resolved or rejected.
NoParams == [host |-> "", port |-> 0, username |-> "", version |-> FALSE]
NoInstance == [st |-> "none", errored |-> FALSE, kicked |-> FALSE,
               entity |-> FALSE, params |-> NoParams, settled |-> FALSE]

\* What a caller of the router gets back: a tool result (content segments,
\* isError) or a protocol-level error (code).
NoResponse == [kind |-> "none", code |-> 0, isError |-> FALSE,
               segments |-> 0, text |-> "", uri |-> ""]


VARIABLES
    bot,                  \* this.bot: 0 is null, otherwise an instance id
    isConnected,          \* this.isConnected
    isConnecting,         \* this.isConnecting
    reconnectAttempts,    \* this.reconnectAttempts
    lastConnectionParams, \* this.lastConnectionParams
    movements,            \* this.movements is non-null
    inst,                 \* the mineflayer instances created so far
    nInst,                \* number of createBot calls so far
    timers,               \* number of pending setTimeout callbacks
    delay,                \* delay of the setTimeout call of the last step, 0 if it made none
    awaiting,             \* instance whose setupBot promise a connect() call awaits, 0 if none
    terminalErrors,       \* number of "Max reconnection attempts reached" errors written
    last,                 \* the call made by the last step and what it returned
    area,                 \* corners handed to digArea and the positions it lists
    job,                  \* the digArea call in progress
    notes,                \* what the last step wrote to the client about the connection
    server,               \* the MinecraftServer around the supervisor
    frame,                \* position, yaw and offset handed to the transform, and its results
    autoAttempts,         \* history: instances the reconnect timers created since the last spawn
    connectCalls,         \* connect() calls suspended at the await of a rejected setupBot promise
    pendingCall           \* the facade or tool call suspended at an await of the library

vars == <<bot, isConnected, isConnecting, reconnectAttempts,
          lastConnectionParams, movements, inst, nInst, timers, delay,
          awaiting, terminalErrors, last, area, job, notes, server, frame,
          autoAttempts, connectCalls, pendingCall>>

\* The supervisor object and its environment as one value, so that the
\* methods can call one another.
Sup == [bot |-> bot, isConnected |-> isConnected, isConnecting |-> isConnecting,
        reconnectAttempts |-> reconnectAttempts,
        lastConnectionParams |-> lastConnectionParams,
        movements |-> movements, inst |-> inst, nInst |-> nInst,
        timers |-> timers, delay |-> 0, awaiting |-> awaiting,
        terminalErrors |-> terminalErrors, area |-> area, job |-> job,
        notes |-> {}, server |-> server, frame |-> frame,
        autoAttempts |-> autoAttempts, connectCalls |-> connectCalls,
        pendingCall |-> pendingCall]

\* The state a step leaves.
Assign(s) ==
    /\ bot' = s.bot
    /\ isConnected' = s.isConnected
    /\ isConnecting' = s.isConnecting
    /\ reconnectAttempts' = s.reconnectAttempts
    /\ lastConnectionParams' = s.lastConnectionParams
    /\ movements' = s.movements
    /\ inst' = s.inst
    /\ nInst' = s.nInst
    /\ timers' = s.timers
    /\ delay' = s.delay
    /\ awaiting' = s.awaiting
    /\ terminalErrors' = s.terminalErrors
    /\ area' = s.area
    /\ job' = s.job
    /\ notes' = s.notes
    /\ server' = s.server
    /\ frame' = s.frame
    /\ autoAttempts' = s.autoAttempts
    /\ connectCalls' = s.connectCalls
    /\ pendingCall' = s.pendingCall

\* A step of the process in a turn of the event loop of its own: the
\* process is running, and no rejection was left unhandled by the turns
\* before, which would have ended it.
Commit(s) == server.st # "exited" /\ ~server.unhandled /\ Assign(s)

\* A callback the event loop runs (an event of an instance, a timer, a
\* request, the settling of a library call): the continuations queued by the
\* callbacks before it have run.
Turn(s) == connectCalls = 0 /\ Commit(s)

\* What a handler hands to the facade: the method it calls, the arguments
\* in order, and whether a progress callback follows them.
NoPassed == [method |-> "", args |-> <<>>, progressCallback |-> FALSE]

\* The call in flight: op is the program that runs, pc the await it is
\* suspended at, tool the tool whose handler made the call ("" when the
\* facade was called directly); on is the instance the end listener of
\* digArea was attached to, disconnected tells that the listener has run,
\* progressed that the progress callback has been called.
NoPending == [op |-> "", pc |-> 0, tool |-> "", on |-> 0,
              disconnected |-> FALSE, progressed |-> FALSE]

\* The last step was an event or a timer, not a call.  In a call, message
\* is the message the facade operation failed with and passed the facade
\* call a tool handler made; out is "pending" when the call is suspended.
NoCall == [op |-> "", arg |-> "", args |-> "", issues |-> <<>>, out |-> "",
           resp |-> NoResponse, message |-> "", passed |-> NoPassed]

\* A line written to the client: a notification (method) or an error object
\* (code), with the type, status and message fields of its parameters.
Note(method, code, type, status, message) ==
    [method |-> method, code |-> code, type |-> type, status |-> status,
     message |-> message]

\* The MinecraftServer: impl tells which of the two server classes it is
\* ("core": core/server.ts, "plain": server.ts), hasParams whether the
\* constructor was given connection parameters, unhandled that a rejected
\* promise was left without a handler, st how far start has come.
NoServer == [impl |-> "core", hasParams |-> TRUE, unhandled |-> FALSE,
             connectionParams |-> NoParams, st |-> "new"]

\* ------------------------------------------------- the external instance
\* bot.end() of mineflayer: the connection is closed; the end event is
\* delivered later, once, unless the instance has ended already.  Every
\* caller of end() drops the instance, so nothing reads a closing instance.
EndCall(s, i) ==
    IF s.inst[i].st \in {"pending", "spawned"}
    THEN [s EXCEPT !.inst[i] = [NoInstance EXCEPT !.st = "closing",
                                                  !.settled = s.inst[i].settled]]
    ELSE s

\* An instance whose connection has ended delivers no further event; only
\* the held one can still be read (its entity stays set).
Ended(r, held) ==
    [NoInstance EXCEPT !.st = "ended", !.entity = r.entity /\ held,
                       !.settled = r.settled]

\* An instance is live from createBot until end() is called on it or its
\* connection has ended.
Live(i) == inst[i].st \in {"pending", "spawned"}

\* ------------------------------------------------------------ area sweep
\* The digArea call in progress.  st is the await the call is suspended at
\* ("navigating": the move to the start position, "relocating": the move
\* towards a block, "digging": the move digBlock starts with, "dig": a
\* bot.dig call, "delay": the pause after a dig), on is the instance the end
\* listener was attached to, idx the number of positions the loop is done
\* with, emissions the calls of progressCallback in order.  empties, digs
\* count the empty positions visited and the positions bot.dig was called
\* for, calls the bot.dig calls (up to MaxBlocks); clean tells that so far
\* every block met was dug by one call that resolved.
NoJob == [st |-> "idle", on |-> 0, listening |-> FALSE,
          disconnected |-> FALSE, total |-> 0, idx |-> 0, blocksDug |-> 0,
          empties |-> 0, digs |-> 0, calls |-> 0, clean |-> TRUE,
          emissions |-> <<>>, outcome |-> ""]

\* The positions digArea lists for a pair of corners: three nested loops,
\* y from maxY down to minY, x from minX up to maxX, z from minZ up to maxZ.
Coords == (0 - SweepRange)..SweepRange
Corners == [x : Coords, y : Coords, z : Coords]
NoArea == [start |-> [x |-> 0, y |-> 0, z |-> 0],
           end |-> [x |-> 0, y |-> 0, z |-> 0], positions |-> <<>>,
           listed |-> FALSE]

\* A lower bound that is the first corner's coordinate.
MinOfFirst(a, b) == a

Min(a, b) == IF a <= b THEN a ELSE b
Max(a, b) == IF a >= b THEN a ELSE b

RECURSIVE ZLoop(_, _, _, _)
ZLoop(x, y, z, maxZ) ==
    IF z > maxZ THEN <<>>
    ELSE <<[x |-> x, y |-> y, z |-> z]>> \o ZLoop(x, y, z + 1, maxZ)

RECURSIVE XLoop(_, _, _, _, _)
XLoop(x, y, maxX, minZ, maxZ) ==
    IF x > maxX THEN <<>>
    ELSE ZLoop(x, y, minZ, maxZ) \o XLoop(x + 1, y, maxX, minZ, maxZ)

RECURSIVE YLoop(_, _, _, _, _, _)
YLoop(y, minY, minX, maxX, minZ, maxZ) ==
    IF y < minY THEN <<>>
    ELSE XLoop(minX, y, maxX, minZ, maxZ)
             \o YLoop(y - 1, minY, minX, maxX, minZ, maxZ)

Positions(start, end) ==
    YLoop(Max(start.y, end.y), Min(start.y, end.y),
          Min(start.x, end.x), Max(start.x, end.x),
          Min(start.z, end.z), Max(start.z, end.z))

\* ------------------------------------------------------ spatial transform
\* Positions and offsets are counted in half blocks.  A double is kept as
\* its exact part m, in half blocks, and the rounding residue r it carries,
\* in thousandths of 2^-53.
Double(m, r) == [m |-> m, r |-> r]

\* The yaw is a number of quarter turns, q * Math.PI / 2.  Math.cos and
\* Math.sin return 1, -1 and 0 exactly at q = 0, but 6.123e-17 for
\* cos(PI / 2), 1.225e-16 for sin(PI) and -1.837e-16 for cos(3 * PI / 2);
\* the residue is the one the product with an offset of one half block has.
Yaws == 0..3

cos(q) ==
    CASE q = 0 -> Double(1, 0) [] q = 1 -> Double(0, 276)
      [] q = 2 -> Double(0 - 1, 0) [] q = 3 -> Double(0, 0 - 827)

sin(q) ==
    CASE q = 0 -> Double(0, 0) [] q = 1 -> Double(1, 0)
      [] q = 2 -> Double(0, 552) [] q = 3 -> Double(0 - 1, 0)

Abs(n) == IF n < 0 THEN 0 - n ELSE n

RECURSIVE Pow2(_)
Pow2(a) == IF a < 2 THEN 1 ELSE 2 * Pow2(a \div 2)

\* The distance between the doubles next to m on the side r points to.
Spacing(m, r) ==
    LET p == Pow2(Abs(m))
    IN IF Abs(m) = p /\ ((m < 0 /\ r > 0) \/ (m > 0 /\ r < 0))
       THEN 500 * p ELSE 1000 * p

\* Rounding of m + r to the nearest double, ties to even.
Round(m, r) ==
    IF m = 0 \/ r = 0 THEN r
    ELSE LET s == Spacing(m, r)
             q == r \div s
             rem == r - q * s
         IN IF 2 * rem < s THEN q * s
            ELSE IF 2 * rem > s THEN (q + 1) * s
            ELSE IF q % 2 = 0 THEN q * s ELSE (q + 1) * s

\* a + b, a - b and offset * trigonometric value in double arithmetic.
Plus(a, b) == Double(a.m + b.m, Round(a.m + b.m, a.r + b.r))
Minus(a, b) == Plus(a, Double(0 - b.m, 0 - b.r))
Times(k, t) == Double(k * t.m, k * t.r)

\* A floor that rounds towards zero.
floorTowardsZero(d) ==
    IF d.m >= 0 THEN d.m \div 2 ELSE 0 - ((0 - d.m) \div 2)

\* Math.floor, in whole blocks.
floor(d) == (d.m \div 2) - (IF d.m % 2 = 0 /\ d.r < 0 THEN 1 ELSE 0)

worldDx(yaw, dx, dz) == Minus(Times(dx, cos(yaw)), Times(dz, sin(yaw)))
worldDz(yaw, dx, dz) == Plus(Times(dx, sin(yaw)), Times(dz, cos(yaw)))

\* relativeToAbsolute: the block an offset points at.
relativeToAbsolute(origin, yaw, dx, dy, dz) ==
    [x |-> floor(Plus(Double(origin.x, 0), worldDx(yaw, dx, dz))),
     y |-> floor(Plus(Double(origin.y, 0), Double(dy, 0))),
     z |-> floor(Plus(Double(origin.z, 0), worldDz(yaw, dx, dz)))]

\* navigateRelative: the goal handed to navigateTo.
navigateRelative(origin, yaw, dx, dy, dz) ==
    [x |-> Plus(Double(origin.x, 0), worldDx(yaw, dx, dz)),
     y |-> Plus(Double(origin.y, 0), Double(dy, 0)),
     z |-> Plus(Double(origin.z, 0), worldDz(yaw, dx, dz))]

\* The inputs of the transform: the entity's position and yaw when the
\* command runs and the offset of the command; block and goal are what
\* relativeToAbsolute and navigateRelative make of them.
HalfBlocks == (0 - TransformRange)..TransformRange
Heights == {0, 1}
NoFrame == [origin |-> [x |-> 0, y |-> 0, z |-> 0], yaw |-> 0,
            offset |-> [dx |-> 0, dy |-> 0, dz |-> 0],
            block |-> [x |-> 0, y |-> 0, z |-> 0],
            goal |-> [x |-> Double(0, 0), y |-> Double(0, 0),
                      z |-> Double(0, 0)],
            applied |-> FALSE]

\* ------------------------------------------------------------ supervisor
\* sendJsonRpcNotification, sendJsonRpcError: one line written to stdout.
send(s, n) == [s EXCEPT !.notes = s.notes \cup {n}]
sendJsonRpcNotification(s, method, message) ==
    send(s, Note(method, 0, "", "", message))
sendJsonRpcError(s, code, message) == send(s, Note("", code, "", "", message))
logDebug(s, message) == sendJsonRpcNotification(s, "bot.debug", message)
logError(s, message) == sendJsonRpcNotification(s, "bot.error", message)

\* The process ends: process.exit(1), or a rejected promise that nothing
\* handles, which ends the process once the running callbacks are done.
exit(s) == [s EXCEPT !.server.st = "exited"]

\* createBot plus the handler registration of setupBot.
createBot(s) ==
    [s EXCEPT !.nInst = s.nInst + 1,
              !.bot = s.nInst + 1,
              !.inst[s.nInst + 1] =
                  [NoInstance EXCEPT !.st = "pending",
                                     !.params = s.lastConnectionParams]]

\* A setupBot that creates the new instance without ending the held one.
teardownMissing(s) == s

\* The teardown at the head of setupBot.
teardown(s) ==
    IF s.bot # 0 THEN [EndCall(s, s.bot) EXCEPT !.bot = 0] ELSE s

\* setupBot: the promise is rejected at once when an attempt is flagged,
\* otherwise it stays pending until the new instance spawns or errors.
\* createOk tells whether createBot returns; when it throws, after the
\* teardown, the catch block reports the failure and rejects the promise.
setupBot(s, createOk) ==
    IF s.isConnecting
    THEN [s |-> s, out |-> "rejected"]
    ELSE IF createOk
    THEN [s |-> createBot(teardown([s EXCEPT !.isConnecting = TRUE])),
          out |-> "pending"]
    ELSE [s |-> sendJsonRpcError(
                    [logError(teardown(s), "Bot setup error")
                         EXCEPT !.isConnecting = FALSE],
                    0 - 32001, "Failed to create bot"),
          out |-> "rejected"]

\* Written notifications are counted up to MaxTerminal.
Count(n) == IF n < MaxTerminal THEN n + 1 ELSE n

\* setTimeout(callback, ms)
setTimeout(s, ms) == [s EXCEPT !.timers = s.timers + 1, !.delay = ms]

\* A handleDisconnect that schedules a reconnect whatever the counter says.
handleDisconnectUnbounded(s) ==
    LET s1 == [s EXCEPT !.isConnected = FALSE, !.movements = FALSE]
    IN IF ~s1.isConnecting
       THEN setTimeout(sendJsonRpcNotification(
                           [s1 EXCEPT !.reconnectAttempts =
                                          s1.reconnectAttempts + 1],
                           "bot.reconnecting", ""),
                       BackoffBaseMs * (s1.reconnectAttempts + 1))
       ELSE sendJsonRpcError(
                [s1 EXCEPT !.terminalErrors = Count(s1.terminalErrors)],
                0 - 32003, "Max reconnection attempts reached")

handleDisconnect(s) ==
    LET s1 == [s EXCEPT !.isConnected = FALSE, !.movements = FALSE]
    IN IF ~s1.isConnecting /\ s1.reconnectAttempts < maxReconnectAttempts
       THEN setTimeout(sendJsonRpcNotification(
                           [s1 EXCEPT !.reconnectAttempts =
                                          s1.reconnectAttempts + 1],
                           "bot.reconnecting", ""),
                       BackoffBaseMs * (s1.reconnectAttempts + 1))
       ELSE sendJsonRpcError(
                [s1 EXCEPT !.terminalErrors = Count(s1.terminalErrors)],
                0 - 32003, "Max reconnection attempts reached")

\* The callback handleDisconnect hands to setTimeout.  Nothing handles the
\* promise setupBot returns to it.
reconnectTimer(s, createOk) ==
    IF ~s.isConnected /\ ~s.isConnecting
    THEN LET r == setupBot(s, createOk)
             s1 == [r.s EXCEPT !.autoAttempts = s.autoAttempts + 1]
         IN IF r.out = "rejected" THEN exit(s1) ELSE s1
    ELSE s

\* setupMovements: mov tells how far the try block gets: "ok", or the
\* statement that throws ("Movements": the constructor, "setMovements").
MovementsOutcomes == {"ok", "Movements", "setMovements"}

setupMovements(s, mov) ==
    IF s.bot = 0 THEN s
    ELSE IF mov = "ok" THEN [s EXCEPT !.movements = TRUE]
    ELSE sendJsonRpcError(
             [s EXCEPT !.movements = s.movements \/ mov = "setMovements"],
             0 - 32002, "Error setting up movements")

\* connect up to its await: it returns at once while an attempt is flagged;
\* otherwise it flags the attempt, stores the parameters and awaits the
\* promise of setupBot, which that flag makes setupBot reject.
connect(s, host, port, username) ==
    IF s.isConnecting
    THEN [s |-> s, out |-> "returned"]
    ELSE LET s1 == [s EXCEPT !.isConnecting = TRUE,
                             !.lastConnectionParams =
                                 [host |-> host, port |-> port,
                                  username |-> username, version |-> FALSE]]
             r == setupBot(s1, TRUE)
         IN IF r.out = "rejected"
            THEN [s |-> [r.s EXCEPT !.connectCalls = s.connectCalls + 1],
                  out |-> "suspended"]
            ELSE [s |-> [r.s EXCEPT !.awaiting = r.s.bot], out |-> "pending"]

\* The continuation of a connect() call whose awaited promise is rejected:
\* the finally block clears the flag and the call's promise is rejected.
connectResumes(s) ==
    [s EXCEPT !.connectCalls = s.connectCalls - 1, !.isConnecting = FALSE]

\* Settling of the promise a connect() call awaits.
settle(s, i) ==
    IF s.awaiting = i
    THEN [s EXCEPT !.awaiting = 0, !.isConnecting = FALSE]
    ELSE s

disconnect(s) ==
    IF s.bot # 0 THEN [EndCall(s, s.bot) EXCEPT !.bot = 0] ELSE s

\* ---------------------------------------------------------------- facade
\* wrapError: an implicit connect() when no instance is held and no attempt
\* is flagged, then the throw of an isError ToolResponse carrying message.
\* The promise of that connect() is not awaited: the call runs up to its
\* await and its continuation is left queued.
wrapError(s, message) ==
    [s |-> IF s.bot = 0 /\ ~s.isConnecting
           THEN connect(s, s.lastConnectionParams.host,
                        s.lastConnectionParams.port,
                        s.lastConnectionParams.username).s
           ELSE s,
     thrown |-> "ToolResponse", text |-> message]

\* What a thrown value is: an Error with a message, or the ToolResponse of
\* wrapError.  m is the message of an Error the library throws or rejects
\* with.
LibraryError == [thrown |-> "Error", text |-> "m"]
TypeErrorNull ==
    [thrown |-> "Error", text |-> "Cannot read properties of null"]
TypeErrorUndefined ==
    [thrown |-> "Error", text |-> "Cannot read properties of undefined"]

\* error instanceof Error ? error.message : String(error)
ErrorText(r) == IF r.thrown = "Error" THEN r.text ELSE "[object Object]"

\* The methods of the facade, and the bodies of the tool handlers that make
\* more than one facade call, as the statements that matter to the
\* supervisor, in order.  A statement is
\*   down       the guard at the head: with this.bot null the method calls
\*              wrapError("Not connected") (m = "wrap"), throws an Error
\*              (m = "throw") or returns null (m = "null");
\*   position   getPosition: null unless the held instance has an entity;
\*   entity     a read of this.bot.entity.position, a TypeError when
\*              this.bot is null or the instance has no entity yet;
\*   getEntity  the facade's entity getter: wrapError("Not connected") when
\*              this.bot is null or the instance has no entity yet;
\*   touch      a use of this.bot, a TypeError when this.bot is null;
\*   call       a synchronous call of the library, which may throw;
\*   check      a lookup whose failure goes to wrapError(m);
\*   lacks      the lookup of the block to place in the inventory, whose
\*              failure goes to wrapError(m);
\*   answer     a lookup whose failure makes the handler return m as an
\*              isError result;
\*   if         a branch to statement to when the fact m holds;
\*   jump       a branch to statement to;
\*   await      an await of a promise of the library, which may reject;
\*   pause      an await of a timer;
\*   movements  the pathfinder getter creating this.movements when null,
\*              with a constructor that may throw;
\*   detached   an async call of the library whose promise nobody awaits or
\*              handles: its rejection ends the process;
\*   listen     this.bot.once("end", disconnectHandler);
\*   stopped    if (disconnected) return this.wrapError(m);
\*   report     the throttled progress callback;
\*   progress   progressCallback(100, ...);
\*   value      return of a value;
\*   null       return of null.
\* c is the chain of catch and finally blocks around the statement, the
\* innermost first.
St(k, m, to, c) == [k |-> k, m |-> m, to |-> to, c |-> c]

\* catch (error) { return this.wrapError(p + message) }; outer tells that
\* the try block awaits another method of the facade, whose rejection
\* reaches the catch block after the continuations queued so far.
Wrap(p, outer) == [h |-> "wrap", p |-> p, to |-> 0, outer |-> outer]
\* catch { log } with the statement that follows the try block
Swallow(to, outer) == [h |-> "swallow", p |-> "", to |-> to, outer |-> outer]
\* finally { this.bot.removeListener(...) } or { this.bot.closeWindow(...) }
Cleanup == [h |-> "finally", p |-> "", to |-> 0, outer |-> FALSE]

NotConnected == "Not connected"

\* The synchronous getters and methods that guard with wrapError and
\* return what the library holds.
Getters == {"getHealth", "getInventory", "getPlayers", "getBlocksNearby",
            "getHealthStatus", "getWeather", "entities", "inventory",
            "findBlocks", "getEquipmentDestSlot"}

\* digBlock after its guard, as statements b + 1 .. b + 6: the move towards
\* the block, whose failure is swallowed; then, until the block is gone,
\* bot.dig, whose failure ends the call (a return when the message is one
\* of the known ones, wrapError otherwise), and the pause of 150 ms.  x is
\* the chain around the call of digBlock, e the statement that follows its
\* return.
digBlockBody(b, x, e) ==
    << St("await", "", 0, <<Swallow(b + 2, FALSE)>>),
       St("touch", "", 0, x),
       St("if", "absent", e, <<>>),
       St("await", "", 0, <<[h |-> "known", p |-> "", to |-> e, outer |-> FALSE],
                            Wrap("", FALSE)>> \o x),
       St("pause", "", 0, x),
       St("jump", "", b + 2, <<>>) >>

\* digArea after its guard, as statements b + 1 .. b + 20: the listener,
\* the move to the corner, the loop over the positions (an empty position
\* is passed without an await, so "empty" at the head of an iteration
\* tells that no position with a block is left) and the finally block.  In
\* an iteration: the distance to the block, the move towards a block that
\* is not near, and digBlock from its guard on, which looks the block up
\* again ("absent").  A throw of the distance computation is the same for
\* every position that is left.
digAreaBody(b) ==
    << St("listen", "", 0, <<>>),
       St("await", "", 0,
          <<Wrap("Failed to navigate: ", FALSE), Swallow(b + 3, TRUE)>>),
       St("stopped", "Disconnected while digging area", 0, <<Cleanup>>),
       St("touch", "", 0, <<Cleanup>>),
       St("if", "empty", b + 19, <<>>),
       St("entity", "", 0, <<Swallow(b + 19, FALSE)>>),
       St("if", "near", b + 9, <<>>),
       St("await", "", 0, <<Swallow(b + 9, FALSE)>>),
       St("down", "wrap", 0, <<Swallow(b + 17, TRUE)>>) >>
    \o digBlockBody(b + 9, <<Swallow(b + 17, TRUE)>>, b + 16)
    \o << St("report", "", 0, <<>>),
          St("if", "last", b + 19, <<>>),
          St("jump", "", b + 3, <<>>),
          St("progress", "", 0, <<>>),
          St("touch", "", 0, <<>>) >>

\* placeBlock from its try block on.  craftItem and smeltItem await it
\* inside their own try block, right after they have found the block to
\* place in the inventory: outer is the chain of the caller.
placeBlockBody(outer) ==
    LET c == <<Wrap("Failed to place block: ", FALSE)>> \o outer
    IN << St("await", "", 0, c),
          St("touch", "", 0, c),
          St("check", "Invalid target position for placing block", 0, c),
          St("await", "", 0, c) >>

\* A method that looks something up, awaits one call of the library and
\* wraps its rejection.
lookupThenAwait(missing, prefix) ==
    << St("down", "wrap", 0, <<>>),
       St("check", missing, 0, <<>>),
       St("await", "", 0, <<Wrap(prefix, FALSE)>>) >>

\* depositItem, withdrawItem: everything is inside one try block, the
\* transfer inside a try / finally that closes the window.  depositItem
\* looks into the inventory of this.bot first, withdrawItem into the window.
transfer(first, prefix) ==
    << St("down", "wrap", 0, <<>>),
       St("check", "No container at position", 0, <<Wrap(prefix, FALSE)>>),
       St("await", "", 0, <<Wrap(prefix, FALSE)>>),
       St("check", "Failed to open container", 0, <<Wrap(prefix, FALSE)>>),
       St(first[1], first[2], 0, <<Cleanup, Wrap(prefix, FALSE)>>),
       St(first[3], first[4], 0, <<Cleanup, Wrap(prefix, FALSE)>>),
       St("await", "", 0, <<Cleanup, Wrap(prefix, FALSE)>>),
       St("touch", "", 0, <<Wrap(prefix, FALSE)>>) >>

\* The programs by name.  Every method starts with its guard.
FacadeOps ==
    Getters \cup {"getPosition", "getEntitiesNearby", "entity", "chat",
                  "blockAt", "navigateTo",
                  "digBlock", "digArea", "placeBlock", "followPlayer",
                  "attackEntity", "navigateRelative", "digBlockRelative",
                  "digAreaRelative", "craftItem", "equipItem", "dropItem",
                  "openContainer", "smeltItem", "depositItem", "withdrawItem",
                  "pathfinder"}

Program ==
    [op \in FacadeOps \cup {"handleInspectBlock", "handleFindBlocks",
                             "handleFindEntities", "handleCheckPath"} |->
        CASE op = "getPosition" -> << St("position", "", 0, <<>>) >>
          [] op \in Getters ->
                 << St("down", "wrap", 0, <<>>), St("value", "", 0, <<>>) >>
          [] op = "blockAt" ->
                 << St("down", "wrap", 0, <<>>),
                    St("if", "absent", 4, <<>>),
                    St("value", "", 0, <<>>),
                    St("null", "", 0, <<>>) >>
          [] op = "pathfinder" ->
                 << St("down", "wrap", 0, <<>>),
                    St("movements", "", 0, <<>>),
                    St("value", "", 0, <<>>) >>
          [] op = "getEntitiesNearby" ->
                 << St("down", "wrap", 0, <<>>),
                    St("if", "absent", 4, <<>>),
                    St("entity", "", 0, <<>>),
                    St("value", "", 0, <<>>) >>
          [] op = "entity" ->
                 << St("getEntity", "", 0, <<>>), St("value", "", 0, <<>>) >>
          [] op = "chat" ->
                 << St("down", "wrap", 0, <<>>), St("call", "", 0, <<>>) >>
          [] op = "navigateTo" ->
                 << St("down", "wrap", 0, <<>>),
                    St("await", "", 0,
                       <<Wrap("Failed to navigate: ", FALSE)>>) >>
          [] op = "digBlock" ->
                 << St("down", "wrap", 0, <<>>) >> \o digBlockBody(1, <<>>, 8)
          [] op = "digArea" ->
                 << St("down", "wrap", 0, <<>>) >> \o digAreaBody(1)
          [] op = "placeBlock" ->
                 << St("down", "wrap", 0, <<>>),
                    St("check", "No item in inventory", 0, <<>>) >>
                 \o placeBlockBody(<<>>)
          [] op = "followPlayer" ->
                 lookupThenAwait("Player not found",
                                 "Failed to follow player: ")
          [] op = "attackEntity" ->
                 << St("down", "wrap", 0, <<>>),
                    St("if", "absent", 4, <<>>),
                    St("entity", "", 0, <<>>),
                    St("check", "No entity found within range", 0, <<>>),
                    St("await", "", 0,
                       <<Wrap("Failed to attack entity: ", FALSE)>>) >>
          [] op = "navigateRelative" ->
                 << St("down", "wrap", 0, <<>>),
                    St("entity", "", 0, <<>>),
                    St("await", "", 0,
                       <<Wrap("Failed to navigate: ", FALSE),
                         Wrap("Failed to navigate relatively: ", TRUE)>>) >>
          [] op = "digBlockRelative" ->
                 << St("down", "throw", 0, <<>>), St("entity", "", 0, <<>>) >>
                 \o digBlockBody(2, <<>>, 9)
          [] op = "digAreaRelative" ->
                 << St("down", "throw", 0, <<>>), St("entity", "", 0, <<>>) >>
                 \o digAreaBody(2)
          [] op = "craftItem" ->
                 LET c == <<Wrap("Failed to craft item: ", FALSE)>>
                 IN << St("down", "wrap", 0, <<>>),
                       St("check", "No recipe found", 0, c),
                       St("if", "place", 5, <<>>),
                       St("jump", "", 12, <<>>),
                       St("lacks", "No crafting table in inventory", 0, c),
                       St("entity", "", 0, c) >>
                    \o placeBlockBody(<<Wrap("Failed to craft item: ", TRUE)>>)
                    \o << St("touch", "", 0, c),
                          St("await", "", 0, c) >>
          [] op = "equipItem" ->
                 lookupThenAwait("No item in inventory",
                                 "Failed to equip item: ")
          [] op = "dropItem" ->
                 lookupThenAwait("No item in inventory",
                                 "Failed to drop item: ")
          [] op = "openContainer" ->
                 lookupThenAwait("No block at specified position",
                                 "Failed to open container: ")
                 \o << St("value", "", 0, <<>>) >>
          [] op = "smeltItem" ->
                 LET c == <<Wrap("Failed to smelt item: ", FALSE)>>
                     f == <<Cleanup>> \o c
                 IN << St("down", "wrap", 0, <<>>),
                       St("if", "place", 4, <<>>),
                       St("jump", "", 11, <<>>),
                       St("lacks", "No furnace in inventory", 0, c),
                       St("entity", "", 0, c) >>
                    \o placeBlockBody(<<Wrap("Failed to smelt item: ", TRUE)>>)
                    \o << St("touch", "", 0, c),
                       St("check", "Could not find or place furnace", 0, c),
                       St("await", "", 0, c),
                       St("touch", "", 0, f),
                       St("check", "No item in inventory", 0, f),
                       St("await", "", 0, f),
                       St("await", "", 0, f),
                       St("pause", "", 0, f),
                       St("touch", "", 0, c) >>
          [] op = "depositItem" ->
                 transfer(<<"touch", "", "check", "No item in inventory">>,
                          "Failed to deposit item: ")
          [] op = "withdrawItem" ->
                 transfer(<<"check", "No item in container", "touch", "">>,
                          "Failed to withdraw item: ")
          [] op = "handleInspectBlock" ->
                 << St("down", "wrap", 0, <<>>),
                    St("answer", "No block found at specified position", 0,
                       <<>>) >>
          [] op = "handleFindBlocks" ->
                 << St("getEntity", "", 0, <<>>),
                    St("down", "wrap", 0, <<>>),
                    St("if", "reach", 5, <<>>),
                    St("jump", "", 8, <<>>),
                    St("down", "wrap", 0, <<>>),
                    St("movements", "", 0, <<>>),
                    St("detached", "", 0, <<>>) >>
          [] op = "handleFindEntities" ->
                 << St("down", "wrap", 0, <<>>),
                    St("if", "absent", 4, <<>>),
                    St("getEntity", "", 0, <<>>) >>
          [] op = "handleCheckPath" ->
                 << St("down", "wrap", 0, <<>>),
                    St("movements", "", 0, <<>>),
                    St("await", "", 0, <<>>),
                    St("if", "obstacles", 10, <<>>),
                    St("if", "absent", 11, <<>>),
                    St("down", "wrap", 0, <<>>),
                    St("movements", "", 0, <<>>),
                    St("await", "", 0, <<>>),
                    St("jump", "", 11, <<>>),
                    St("getEntity", "", 0, <<>>) >>]

\* The facts a statement asks for: what the library and the world do to a
\* call between two of its awaits.  "fail" the awaited promise rejects or
\* the synchronous call throws, "known" the rejection of bot.dig has one of
\* the known messages, "absent" the lookup finds nothing, "empty" no
\* position of the area that is left holds a block, "throws" the Movements
\* constructor throws, "near" the block
\* is within reach, "due" 500 ms have passed since the last progress
\* report, "last" the loop has visited its last position, "place" the
\* crafting table or furnace is not nearby and has to be placed, "reach"
\* find_blocks is asked for reachable blocks and has a match to check,
\* "obstacles" check_path finds no path and is asked for the obstacles,
\* "lacks" the inventory holds no crafting table or furnace to place.
Asks(t) ==
    IF t.k \in {"await", "call", "detached"}
    THEN {"fail"} \cup {"known" : i \in {j \in 1..Len(t.c) :
                                              t.c[j].h = "known"}}
    ELSE IF t.k \in {"check", "answer"} THEN {"absent"}
    ELSE IF t.k = "lacks" THEN {"lacks"}
    ELSE IF t.k = "if" THEN {t.m}
    ELSE IF t.k = "report" THEN {"due"}
    ELSE IF t.k = "movements" THEN {"throws"}
    ELSE {}

\* The statements control may pass to from statement i without an await in
\* between: the one that follows, the target of a branch, and the
\* statements that follow the try blocks whose catch swallows.
After(P, i) ==
    (IF P[i].k = "jump" THEN {} ELSE {i + 1})
    \cup (IF P[i].k \in {"if", "jump"} THEN {P[i].to} ELSE {})
    \cup {P[i].c[j].to : j \in {n \in 1..Len(P[i].c) :
                                    P[i].c[n].h \in {"swallow", "known"}}}

\* The statements a run that starts at one of from may execute before it is
\* suspended or ends.
RECURSIVE Segment(_, _)
Segment(P, from) ==
    LET more == from \cup UNION {After(P, i) :
                                    i \in {n \in from :
                                           P[n].k \notin {"await", "pause"}}}
        inside == {i \in more : i <= Len(P)}
    IN IF inside = from THEN from ELSE Segment(P, inside)

\* The facts a call asks for between its await at pc (its start, when pc is
\* 0) and its next await or its end.
FactsOf(P, pc) ==
    LET from == IF pc = 0 THEN {1} ELSE {i \in After(P, pc) : i <= Len(P)}
    IN (IF pc = 0 THEN {} ELSE Asks(P[pc]))
       \cup UNION {Asks(P[i]) :
                      i \in {n \in Segment(P, from) :
                                P[n].k \notin {"await", "pause"}}}

\* How a run of a program ends: st is "returned", "thrown", "answered"
\* (the handler returns an isError result) or "suspended" at await pc.
Outcome(s, st, pc, thrown, text) ==
    [s |-> s, st |-> st, pc |-> pc, thrown |-> thrown, text |-> text]

\* The continuations queued so far run before the rejection of a method's
\* promise reaches the method that awaits it.
drain(s, outer) ==
    IF outer /\ s.connectCalls > 0 THEN connectResumes(s) ELSE s

\* run: the statements from pc on, up to the next await or the end of the
\* call.  raise: a value thrown at a statement makes its way through the
\* chain c of catch and finally blocks.
RECURSIVE run(_, _, _, _), raise(_, _, _, _, _)

raise(P, s, lib, v, c) ==
    IF c = <<>> THEN Outcome(s, "thrown", 0, v.thrown, v.text)
    ELSE IF Head(c).h = "wrap"
    THEN LET w == wrapError(drain(s, Head(c).outer),
                            Head(c).p \o ErrorText(v))
         IN raise(P, w.s, lib, [thrown |-> w.thrown, text |-> w.text], Tail(c))
    ELSE IF Head(c).h = "finally"
    THEN raise(P, s, lib, IF s.bot = 0 THEN TypeErrorNull ELSE v, Tail(c))
    ELSE IF Head(c).h = "known"
    THEN IF "known" \in lib THEN run(P, s, Head(c).to, lib)
         ELSE raise(P, s, lib, v, Tail(c))
    ELSE run(P, drain(s, Head(c).outer), Head(c).to, lib)

run(P, s, pc, lib) ==
    IF pc > Len(P) THEN Outcome(s, "returned", 0, "", "void")
    ELSE LET t == P[pc]
             w == wrapError(s, IF t.k \in {"down", "getEntity"}
                               THEN NotConnected ELSE t.m)
             wrapped == raise(P, w.s, lib,
                              [thrown |-> w.thrown, text |-> w.text], t.c)
             next == run(P, s, pc + 1, lib)
         IN CASE t.k = "down" ->
                     IF s.bot # 0 THEN next
                     ELSE IF t.m = "wrap" THEN wrapped
                     ELSE IF t.m = "throw"
                     THEN raise(P, s, lib,
                                [thrown |-> "Error", text |-> NotConnected],
                                t.c)
                     ELSE Outcome(s, "returned", 0, "", "null")
              [] t.k = "position" ->
                     Outcome(s, "returned", 0, "",
                             IF s.bot = 0 \/ ~s.inst[s.bot].entity
                             THEN "null" ELSE "value")
              [] t.k = "getEntity" ->
                     IF s.bot = 0 \/ ~s.inst[s.bot].entity THEN wrapped
                     ELSE next
              [] t.k = "entity" ->
                     IF s.bot = 0 THEN raise(P, s, lib, TypeErrorNull, t.c)
                     ELSE IF ~s.inst[s.bot].entity
                     THEN raise(P, s, lib, TypeErrorUndefined, t.c)
                     ELSE next
              [] t.k = "touch" ->
                     IF s.bot = 0 THEN raise(P, s, lib, TypeErrorNull, t.c)
                     ELSE next
              [] t.k = "call" ->
                     IF "fail" \in lib THEN raise(P, s, lib, LibraryError, t.c)
                     ELSE next
              [] t.k = "check" -> IF "absent" \in lib THEN wrapped ELSE next
              [] t.k = "lacks" -> IF "lacks" \in lib THEN wrapped ELSE next
              [] t.k = "answer" ->
                     IF "absent" \in lib
                     THEN Outcome(s, "answered", 0, "", t.m)
                     ELSE next
              [] t.k = "if" ->
                     IF t.m \in lib THEN run(P, s, t.to, lib) ELSE next
              [] t.k = "jump" -> run(P, s, t.to, lib)
              [] t.k \in {"await", "pause"} ->
                     Outcome(s, "suspended", pc, "", "")
              [] t.k = "movements" ->
                     IF s.movements THEN next
                     ELSE IF "throws" \in lib
                     THEN raise(P, s, lib, LibraryError, t.c)
                     ELSE run(P, [s EXCEPT !.movements = TRUE], pc + 1, lib)
              [] t.k = "listen" ->
                     run(P, [s EXCEPT !.pendingCall.on = s.bot], pc + 1, lib)
              [] t.k = "stopped" ->
                     IF s.pendingCall.disconnected THEN wrapped ELSE next
              [] t.k = "report" ->
                     run(P, [s EXCEPT !.pendingCall.progressed =
                                         @ \/ "due" \in lib], pc + 1, lib)
              [] t.k = "progress" ->
                     run(P, [s EXCEPT !.pendingCall.progressed = TRUE],
                         pc + 1, lib)
              [] t.k = "detached" ->
                     IF "fail" \in lib THEN run(P, exit(s), pc + 1, lib)
                     ELSE next
              [] t.k = "value" -> Outcome(s, "returned", 0, "", "value")
              [] t.k = "null" -> Outcome(s, "returned", 0, "", "null")

\* A call ends or is suspended: the call in flight is kept while it is
\* suspended and forgotten when it has ended.
Kept(r) ==
    [s |-> [r.s EXCEPT !.pendingCall =
                           IF r.st = "suspended"
                           THEN [r.s.pendingCall EXCEPT !.pc = r.pc]
                           ELSE NoPending],
     st |-> r.st, pc |-> r.pc, thrown |-> r.thrown, text |-> r.text,
     progressed |-> r.s.pendingCall.progressed]

\* A facade method called by op on behalf of tool, up to its first await.
facade(s, op, tool, lib) ==
    Kept(run(Program[op],
             [s EXCEPT !.pendingCall = [NoPending EXCEPT !.op = op,
                                                         !.tool = tool]],
             1, lib))

\* The call in flight after the promise it awaits has settled: the call
\* goes on after its await, or with the rejection thrown at it.
facadeResumes(s, lib) ==
    LET P == Program[s.pendingCall.op]
        pc == s.pendingCall.pc
    IN Kept(IF "fail" \in lib /\ P[pc].k = "await"
            THEN raise(P, s, lib, LibraryError, P[pc].c)
            ELSE run(P, s, pc + 1, lib))

\* The condition a facade call ends with.
Condition(r) ==
    IF r.st = "suspended" THEN "pending"
    ELSE IF r.st \in {"returned", "answered"} THEN "returned"
    ELSE IF r.text = NotConnected THEN "NotConnected"
    ELSE IF r.thrown = "ToolResponse" THEN "ActionFailed"
    ELSE "LibraryError"

\* -------------------------------------------------------------- area job
\* digArea as the steps between its awaits.  The handler always passes a
\* progress callback.

\* A progress emission that is delivered ahead of the earlier ones.
progressCallbackFirst(j, progress) ==
    [j EXCEPT !.emissions = <<[progress |-> progress,
                               blocksDug |-> j.blocksDug,
                               totalBlocks |-> j.total]>> \o j.emissions]

\* progressCallback(progress, blocksDug, totalBlocks)
progressCallback(j, progress) ==
    [j EXCEPT !.emissions = Append(j.emissions,
                                   [progress |-> progress,
                                    blocksDug |-> j.blocksDug,
                                    totalBlocks |-> j.total])]

\* The finally block: this.bot.removeListener("end", disconnectHandler) on
\* whatever this.bot is by now; with this.bot null that statement throws a
\* TypeError, which replaces the outcome the try block ended with.
finally(s, outcome) ==
    LET j == [s.job EXCEPT !.st = "done"]
    IN IF s.bot = 0
       THEN [s EXCEPT !.job = [j EXCEPT !.outcome = "TypeError"]]
       ELSE [s EXCEPT !.job = [j EXCEPT !.outcome = outcome,
                                        !.listening = j.listening
                                                      /\ s.bot # j.on]]

\* An empty position that is skipped without being counted.
skipEmptyUncounted(j) ==
    [j EXCEPT !.empties = j.empties + 1, !.idx = j.idx + 1]

\* "Skip air but increment progress"
skipEmpty(j) ==
    [j EXCEPT !.blocksDug = j.blocksDug + 1, !.empties = j.empties + 1,
              !.idx = j.idx + 1]

\* The for loop from an iteration boundary up to the next await or the
\* end of the call.  blocks is what blockAt returns for the positions that
\* are left, "empty" for null or air; far tells whether the first block
\* met is more than 4 away.
RECURSIVE loop(_, _, _)
loop(s, blocks, far) ==
    IF s.job.idx = s.job.total
    THEN finally([s EXCEPT !.job = progressCallback(s.job, 100)], "resolved")
    ELSE IF s.job.disconnected
    THEN finally(wrapError(s, "Disconnected while digging area").s,
                 "Disconnected")
    ELSE IF s.bot = 0
    THEN finally(s, "TypeError")
    ELSE IF Head(blocks) = "empty"
    THEN loop([s EXCEPT !.job = skipEmpty(s.job)], Tail(blocks), far)
    ELSE IF ~s.inst[s.bot].entity
    THEN loop([s EXCEPT !.job.idx = s.job.idx + 1, !.job.clean = FALSE],
              Tail(blocks), far)
    ELSE [s EXCEPT !.job.st = IF far THEN "relocating" ELSE "digging"]

\* digArea up to its first await.
digArea(s, start, end) ==
    IF s.bot = 0
    THEN [wrapError(s, "Not connected").s
              EXCEPT !.job = [NoJob EXCEPT !.st = "done",
                                           !.outcome = "NotConnected"]]
    ELSE [s EXCEPT !.job = [NoJob EXCEPT
                                !.st = "navigating",
                                !.on = s.bot,
                                !.listening = TRUE,
                                !.total = Len(Positions(start, end))]]

\* navigateTo has settled; its rejection is swallowed.  A failed goto
\* goes through wrapError.
navigated(s, navOk, blocks, far) ==
    loop(IF navOk THEN s
         ELSE drain(wrapError(s, "Failed to navigate: m").s, TRUE),
         blocks, far)

\* A relocation after which the position is given up without digBlock.
relocatedGivesUp(s, blocks, far) ==
    loop([s EXCEPT !.job.idx = s.job.idx + 1], blocks, far)

\* The goto towards the block has settled; its rejection is swallowed and
\* digBlock is called, which throws at once when this.bot is null.
relocated(s, blocks, far) ==
    IF s.bot = 0
    THEN loop([drain(wrapError(s, "Not connected").s, TRUE)
                   EXCEPT !.job.idx = s.job.idx + 1, !.job.clean = FALSE],
              blocks, far)
    ELSE [s EXCEPT !.job.st = "digging"]

\* What digBlock ends with: the block is gone or indestructible (no dig),
\* it was dug, the dig failed with a "cannot dig" kind of message (skipped),
\* the dig failed otherwise (wrapError), or this.bot was null when digBlock
\* read it (lost).
DigResolved == {"gone", "indestructible", "dug", "skipped"}
DigThrown == {"failed", "lost"}

\* A dig call that is counted twice.
digCountedTwice(s) ==
    [s EXCEPT !.job.st = "dig", !.job.calls = s.job.calls + 2]

\* digBlock finds a block it can dig and calls bot.dig: after its move, or
\* again when the block is still there after the pause that follows a dig.
dig(s) ==
    [s EXCEPT !.job.st = "dig",
              !.job.calls = IF s.job.calls < MaxBlocks
                            THEN s.job.calls + 1 ELSE s.job.calls,
              !.job.digs = s.job.digs
                           + (IF s.job.st = "digging" THEN 1 ELSE 0),
              !.job.clean = s.job.clean /\ s.job.st = "digging"]

\* bot.dig has resolved: digBlock pauses for 150 ms.
dug(s) == [s EXCEPT !.job.st = "delay"]

\* Math.floor((blocksDug / totalBlocks) * 100) in IEEE doubles: the quotient
\* is rounded before it is multiplied, so that 29, 57 and 58 hundredths come
\* out one below (29 / 100 * 100 is 28.999999999999996); every other value
\* is the integer quotient, for all totals up to 2000.
percent(blocksDug, totalBlocks) ==
    LET k == (blocksDug * 100) \div totalBlocks
    IN IF (blocksDug * 100) % totalBlocks = 0 /\ k \in {29, 57, 58}
       THEN k - 1 ELSE k

\* digBlock has settled: blocksDug++ and the throttled progress callback
\* when it resolved, the catch block when it threw; then the loop goes on.
settled(s, o, due, blocks, far) ==
    LET s1 == IF o = "failed" THEN drain(wrapError(s, "m").s, TRUE) ELSE s
        j1 == [s1.job EXCEPT !.idx = s1.job.idx + 1,
                             !.clean = s1.job.clean /\ o = "dug"]
        j2 == IF o \in DigResolved
              THEN [j1 EXCEPT !.blocksDug = j1.blocksDug + 1]
              ELSE j1
        j3 == IF o \in DigResolved /\ due
              THEN progressCallback(j2, percent(j2.blocksDug, j2.total))
              ELSE j2
    IN loop([s1 EXCEPT !.job = j3], blocks, far)

\* The once("end") listener of digArea.
disconnectHandler(s, i) ==
    LET s1 == IF s.job.listening /\ s.job.on = i
              THEN [s EXCEPT !.job.disconnected = TRUE,
                             !.job.listening = FALSE]
              ELSE s
    IN IF s1.pendingCall.on = i
       THEN [s1 EXCEPT !.pendingCall.disconnected = TRUE]
       ELSE s1

\* ---------------------------------------------------------------- router
\* Tool results and protocol-level errors.
Result(text, isError) ==
    [kind |-> "result", code |-> 0, isError |-> isError, segments |-> 1,
     text |-> text, uri |-> ""]

\* A rejection that leaves the request handler is answered by the RPC
\* library with a protocol-level error; a thrown value without a code gets
\* the code of an internal error (-32603), one without a message a fixed
\* message.
Escapes(r) ==
    [kind |-> "error", code |-> 0 - 32603, isError |-> FALSE,
     segments |-> 0,
     text |-> IF r.thrown = "Error" THEN r.text ELSE "Internal error",
     uri |-> ""]

\* MinecraftToolHandler: what each handler runs (a method of the facade, or
\* its own body when it makes more than one facade call), the handlers that
\* wrap it in try / catch, and the handlers whose answer has a text and a
\* json segment.
HandlerOp == [chat |-> "chat", navigate_to |-> "navigateTo",
              navigate_relative |-> "navigateRelative",
              dig_block |-> "digBlock",
              dig_block_relative |-> "digBlockRelative",
              dig_area |-> "digArea",
              dig_area_relative |-> "digAreaRelative",
              place_block |-> "placeBlock",
              follow_player |-> "followPlayer",
              attack_entity |-> "attackEntity",
              inspect_block |-> "handleInspectBlock",
              find_blocks |-> "handleFindBlocks",
              inspect_inventory |-> "getInventory",
              find_entities |-> "handleFindEntities",
              check_path |-> "handleCheckPath",
              craft_item |-> "craftItem", smelt_item |-> "smeltItem",
              equip_item |-> "equipItem", deposit_item |-> "depositItem",
              withdraw_item |-> "withdrawItem"]
DispatchedTools == DOMAIN HandlerOp
FailurePrefix == [dig_area |-> "Failed to dig area: ",
                  dig_area_relative |-> "Failed to dig relative area: ",
                  craft_item |-> "Failed to craft item: ",
                  smelt_item |-> "Failed to smelt item: ",
                  equip_item |-> "Failed to equip item: ",
                  deposit_item |-> "Failed to deposit item: ",
                  withdraw_item |-> "Failed to withdraw item: "]
CatchingHandlers == DOMAIN FailurePrefix
TwoSegments == {"inspect_block", "find_blocks", "inspect_inventory",
                "find_entities", "check_path"}

\* MINECRAFT_TOOLS: the names the tool listing returns.
MINECRAFT_TOOLS ==
    {"disconnect", "chat", "navigate_to", "navigate_relative", "dig_block",
     "dig_block_relative", "dig_area", "dig_area_relative", "place_block",
     "follow_player", "attack_entity", "inspect_block", "find_blocks",
     "find_entities", "check_path", "craft_item", "smelt_item", "equip_item",
     "deposit_item", "withdraw_item"}

\* The case labels of the switch in the CallTool request handler.
SwitchCases ==
    {"chat", "navigate_to", "navigate_relative", "dig_block",
     "dig_block_relative", "dig_area", "dig_area_relative", "place_block",
     "follow_player", "attack_entity", "inspect_block", "find_blocks",
     "inspect_inventory", "find_entities", "check_path", "craft_item",
     "smelt_item", "equip_item", "deposit_item", "withdraw_item"}

\* The facade calls of the handlers of the relative tools.
handleNavigateRelative(dx, dy, dz) ==
    [method |-> "navigateRelative", args |-> <<dx, dy, dz>>,
     progressCallback |-> FALSE]

handleDigAreaRelative(start, end) ==
    [method |-> "digAreaRelative", args |-> <<start, end>>,
     progressCallback |-> TRUE]

\* What a handler makes of the call it awaits: nothing while the call is
\* suspended; its answer when the call returns; when the call throws, the
\* isError result of its catch block (with the progress reported so far, in
\* the handlers of the area tools), or the rejection when it has none.
handled(r, name) ==
    [s |-> r.s, call |-> Condition(r),
     message |-> IF r.st = "thrown" THEN r.text ELSE "",
     settled |-> IF r.st = "suspended" THEN "pending"
                 ELSE IF r.st = "thrown" /\ name \notin CatchingHandlers
                 THEN "rejected" ELSE "resolved",
     resp |-> IF r.st = "suspended" THEN NoResponse
              ELSE IF r.st = "answered" THEN Result(r.text, TRUE)
              ELSE IF r.st = "returned"
              THEN [Result("done", FALSE)
                        EXCEPT !.segments = IF name \in TwoSegments
                                            THEN 2 ELSE 1]
              ELSE IF name \in CatchingHandlers
              THEN Result(FailurePrefix[name] \o ErrorText(r)
                              \o (IF r.progressed
                                  THEN "\nProgress before error" ELSE ""),
                          TRUE)
              ELSE Escapes(r)]

\* A handler up to the first await of the call it makes.
handle(s, name, lib) == handled(facade(s, HandlerOp[name], name, lib), name)

\* The handler of the call in flight after an await has settled.
handleResumes(s, lib) == handled(facadeResumes(s, lib), s.pendingCall.tool)

\* The arguments of a tools/call request: undefined, or an object told by
\* the fields of the tool's schema it has no value for (lacking) and the
\* fields whose value has a type the schema does not accept (wrong: a
\* string where a number is expected, a number anywhere else).  A path is
\* the sequence of keys that leads to the field.
Args(given, lacking, wrong) ==
    [given |-> given, lacking |-> lacking, wrong |-> wrong]

\* A field of a z.object schema: its path, whether the arguments have to
\* carry it (neither .optional() nor .default()), and the type it expects.
Field(path, required, type) ==
    [path |-> path, required |-> required, type |-> type]

\* The schema each case of the switch of core/server.ts parses with, as its
\* fields in the order Zod visits them.  Numbers is z.object({k:
\* z.number(), ...}) for the keys, PositionParams a required object of three
\* numbers under key.  The fields of the optional constraints object are
\* left out: the arguments modelled carry none.
Schema(name) ==
    LET Numbers(prefix, keys) ==
            [i \in 1..Len(keys) |->
                Field(prefix \o <<keys[i]>>, TRUE, "number")]
        PositionParams(key, keys) ==
            <<Field(<<key>>, TRUE, "object")>> \o Numbers(<<key>>, keys)
        xyz == <<"x", "y", "z">>
        dxyz == <<"dx", "dy", "dz">>
        distance == <<Field(<<"maxDistance">>, FALSE, "number"),
                      Field(<<"maxCount">>, FALSE, "number"),
                      Field(<<"constraints">>, FALSE, "object")>>
        container == PositionParams("containerPosition", xyz)
                     \o <<Field(<<"itemName">>, TRUE, "string"),
                          Field(<<"quantity">>, FALSE, "number")>>
    IN CASE name = "chat" -> <<Field(<<"message">>, TRUE, "string")>>
         [] name \in {"navigate_to", "dig_block"} -> Numbers(<<>>, xyz)
         [] name \in {"navigate_relative", "dig_block_relative"} ->
                Numbers(<<>>, dxyz)
         [] name = "dig_area" ->
                PositionParams("start", xyz) \o PositionParams("end", xyz)
         [] name = "dig_area_relative" ->
                PositionParams("start", dxyz) \o PositionParams("end", dxyz)
         [] name = "place_block" ->
                Numbers(<<>>, xyz)
                \o <<Field(<<"blockName">>, TRUE, "string")>>
         [] name = "follow_player" ->
                <<Field(<<"username">>, TRUE, "string"),
                  Field(<<"distance">>, FALSE, "number")>>
         [] name = "attack_entity" ->
                <<Field(<<"entityName">>, TRUE, "string"),
                  Field(<<"maxDistance">>, FALSE, "number")>>
         [] name = "inspect_block" ->
                PositionParams("position", xyz)
                \o <<Field(<<"includeState">>, FALSE, "boolean")>>
         [] name = "find_blocks" ->
                <<Field(<<"blockTypes">>, TRUE, "array")>> \o distance
         [] name = "inspect_inventory" ->
                <<Field(<<"itemType">>, FALSE, "string"),
                  Field(<<"includeEquipment">>, FALSE, "boolean")>>
         [] name = "find_entities" ->
                <<Field(<<"entityTypes">>, TRUE, "array")>> \o distance
         [] name = "check_path" ->
                PositionParams("destination", xyz)
                \o <<Field(<<"dryRun">>, FALSE, "boolean"),
                     Field(<<"includeObstacles">>, FALSE, "boolean")>>
         [] name = "craft_item" ->
                <<Field(<<"itemName">>, TRUE, "string"),
                  Field(<<"quantity">>, FALSE, "number"),
                  Field(<<"useCraftingTable">>, FALSE, "boolean")>>
         [] name = "smelt_item" ->
                <<Field(<<"itemName">>, TRUE, "string"),
                  Field(<<"fuelName">>, TRUE, "string"),
                  Field(<<"quantity">>, FALSE, "number")>>
         [] name = "equip_item" ->
                <<Field(<<"itemName">>, TRUE, "string"),
                  Field(<<"destination">>, TRUE,
                        "'hand' | 'off-hand' | 'head' | 'torso' | 'legs' | 'feet'")>>
         [] name \in {"deposit_item", "withdraw_item"} -> container
         [] OTHER -> <<>>

\* The schemas of schemas.ts, which the switch of server.ts parses with:
\* blockTypes of find_blocks is a union there.
PlainSchema(name) ==
    IF name = "find_blocks"
    THEN <<Field(<<"blockTypes">>, TRUE, "union")>> \o Tail(Schema(name))
    ELSE Schema(name)

\* schema.parse(args): the issues of the ZodError it throws, none when it
\* returns.  A field inside an object that is lacking or wrong is not
\* visited.  A value of the wrong type is an invalid_type issue, a lacking
\* required value the same issue with the message Required; a union
\* reports both as Invalid input.
RECURSIVE parse(_, _)
parse(schema, args) ==
    IF schema = <<>> THEN <<>>
    ELSE LET f == Head(schema)
             inside == SubSeq(f.path, 1, Len(f.path) - 1)
             visited == inside = <<>>
                        \/ inside \notin args.lacking \cup args.wrong
             found == f.path \in args.wrong
                      \/ (f.required /\ f.path \in args.lacking)
             message ==
                 IF f.type = "union" THEN "Invalid input"
                 ELSE IF f.path \in args.wrong
                 THEN "Expected " \o f.type \o ", received "
                      \o (IF f.type = "number" THEN "string" ELSE "number")
                 ELSE "Required"
         IN (IF visited /\ found
             THEN <<[path |-> f.path, message |-> message]>> ELSE <<>>)
            \o parse(Tail(schema), args)

\* Array.prototype.join
RECURSIVE join(_, _)
join(a, separator) ==
    IF a = <<>> THEN ""
    ELSE IF Len(a) = 1 THEN a[1]
    ELSE a[1] \o separator \o join(Tail(a), separator)

\* The text of the catch block for a ZodError.
InvalidArguments(issues) ==
    "Invalid arguments: "
    \o join([i \in 1..Len(issues) |->
                join(issues[i].path, ".") \o ": " \o issues[i].message],
            ", ")

\* What the arguments are to the schema the tool declares.
Class(name, args) ==
    IF ~args.given THEN "missing"
    ELSE IF parse(Schema(name), args) # <<>> THEN "invalid"
    ELSE "valid"

\* The arguments a request for a tool is made with: none, an object that
\* meets the schema, the empty object, and the objects that lack one field
\* or have one field of the wrong type.
Arguments(name) ==
    LET paths == {Schema(name)[i].path : i \in 1..Len(Schema(name))}
    IN {Args(FALSE, {}, {}), Args(TRUE, {}, {}), Args(TRUE, paths, {})}
       \cup {Args(TRUE, {q}, {}) : q \in paths}
       \cup {Args(TRUE, {}, {q}) : q \in paths}

\* The CallTool request handler of core/server.ts.  The handler's promise is
\* returned from inside the try block without being awaited, so the catch
\* block sees the schema errors only.
callTool(s, name, args, lib) ==
    IF ~args.given
    THEN [s |-> s, call |-> "none", message |-> "",
          resp |-> Result("No arguments provided", TRUE)]
    ELSE IF name \notin SwitchCases
    THEN [s |-> s, call |-> "none", message |-> "",
          resp |-> Result("Unknown tool: " \o name, TRUE)]
    ELSE IF parse(Schema(name), args) # <<>>
    THEN [s |-> s, call |-> "none", message |-> "",
          resp |-> Result(InvalidArguments(parse(Schema(name), args)), TRUE)]
    ELSE LET h == handle(s, name, lib)
         IN [s |-> h.s, call |-> h.call, message |-> h.message,
             resp |-> h.resp]

\* The CallTool request handler of server.ts: its switch has fourteen
\* cases.
PlainCases ==
    {"chat", "navigate_to", "navigate_relative", "dig_block",
     "dig_block_relative", "dig_area", "dig_area_relative", "place_block",
     "follow_player", "attack_entity", "inspect_block", "find_blocks",
     "find_entities", "check_path"}

callToolPlain(s, name, args, lib) ==
    IF ~args.given
    THEN [s |-> s, call |-> "none", message |-> "",
          resp |-> Result("Arguments are required", TRUE)]
    ELSE IF name \notin PlainCases
    THEN [s |-> s, call |-> "none", message |-> "",
          resp |-> Result("Unknown tool: " \o name, TRUE)]
    ELSE IF parse(PlainSchema(name), args) # <<>>
    THEN [s |-> s, call |-> "none", message |-> "",
          resp |-> Result(InvalidArguments(parse(PlainSchema(name), args)),
                          TRUE)]
    ELSE LET h == handle(s, name, lib)
         IN [s |-> h.s, call |-> h.call, message |-> h.message,
             resp |-> h.resp]

\* The ReadResource request handler of core/server.ts with the resource
\* handlers it dispatches to: one content block per answer, carrying the
\* serialized value, or the serialized error when the URI is not in the
\* switch or the handler throws.
Contents(uri, text, isError) ==
    [kind |-> "contents", code |-> 0, isError |-> isError, segments |-> 1,
     text |-> text, uri |-> uri]

Scheme == "minecraft://"
ResourceNames == {"players", "position", "blocks/nearby", "entities/nearby",
                  "inventory", "health", "weather"}
ResourceOp ==
    [n \in ResourceNames |->
        CASE n = "players" -> "getPlayers"
          [] n = "position" -> "getPosition"
          [] n = "blocks/nearby" -> "getBlocksNearby"
          [] n = "entities/nearby" -> "getEntitiesNearby"
          [] n = "inventory" -> "getInventory"
          [] n = "health" -> "getHealthStatus"
          [] n = "weather" -> "getWeather"]
Catalog == {Scheme \o n : n \in ResourceNames}
ResourceName(uri) == CHOOSE n \in ResourceNames : Scheme \o n = uri

readResource(s, uri, lib) ==
    IF uri \notin Catalog
    THEN [s |-> s, call |-> "none",
          resp |-> Contents(uri, "Unknown resource URI: " \o uri, TRUE)]
    ELSE LET r == run(Program[ResourceOp[ResourceName(uri)]], s, 1, lib)
         IN [s |-> r.s, call |-> Condition(r),
             resp |-> IF r.st = "returned"
                      THEN Contents(uri, r.text, FALSE)
                      ELSE Contents(uri, "Resource handler error: "
                                             \o ErrorText(r), TRUE)]

\* ---------------------------------------------------------- server start
\* server.notification of core/server.ts: a server/status notification.
notification(s, type, message) ==
    send(s, Note("server/status", 0, type, "", message))

\* start up to its first await.  core/server.ts calls connect when the
\* constructor was given connection parameters and goes on to
\* server.connect(transport) otherwise; server.ts always calls connect.  The
\* call of connect returns a promise: one that is resolved when connect
\* returned at once, one that is rejected as soon as the continuation of
\* connect has run when connect was suspended.
startServer(s) ==
    IF s.server.impl = "core" /\ ~s.server.hasParams
    THEN [s EXCEPT !.server.st = "serving"]
    ELSE LET p == s.server.connectionParams
             r == connect(s, p.host, p.port, p.username)
         IN [r.s EXCEPT !.server.st = IF r.out = "returned"
                                      THEN "connectReturned"
                                      ELSE "connectSuspended"]

\* start after await this.bot.connect(...), with the continuation of the
\* connect call before it: the status is written and start goes on to
\* server.connect(transport), or the rejection reaches the catch block,
\* which reports it and ends the process (core/server.ts) or throws it to
\* the caller (server.ts).
startConnected(s) ==
    LET rejected == s.server.st = "connectSuspended"
        p == s.server.connectionParams
        s1 == IF rejected THEN connectResumes(s) ELSE s
    IN IF s.server.impl = "core"
       THEN IF rejected
            THEN exit(notification(
                          s1, "error",
                          "Failed to start server: Already connecting"))
            ELSE [notification(s1, "info",
                               "Connected to Minecraft server at "
                                   \o p.host \o ":" \o ToString(p.port))
                      EXCEPT !.server.st = "serving"]
       ELSE IF rejected
       THEN [sendJsonRpcError(s1, 0 - 32000, "Server startup failed")
                 EXCEPT !.server.st = "failed"]
       ELSE [send(s1, Note("server.status", 0, "connection", "connected", ""))
                 EXCEPT !.server.st = "serving"]

\* start after await this.server.connect(transport); transportOk tells
\* whether that promise was resolved.
startServed(s, transportOk) ==
    IF s.server.impl = "core"
    THEN IF transportOk
         THEN [notification(s, "info",
                            "Mineflayer MCP Server running on stdio")
                   EXCEPT !.server.st = "running"]
         ELSE exit(notification(s, "error",
                                "Failed to start server: transport"))
    ELSE IF transportOk
    THEN [send(s, Note("server.status", 0, "startup", "running", ""))
              EXCEPT !.server.st = "running"]
    ELSE [sendJsonRpcError(s, 0 - 32000, "Server startup failed")
              EXCEPT !.server.st = "failed"]

\* ------------------------------------------------------ initial condition
\* new MineflayerBot(params): the constructor stores the parameters and
\* calls setupBot, whose promise it drops: when createBot throws, the
\* rejection is left unhandled.  The parameters are the ones the server
\* passes, when v names them.
Constructor(a, j, f, v) ==
    \E p \in IF v.connectionParams # NoParams THEN {v.connectionParams}
              ELSE {q \in ConnectionParamsSet : q.host = "h1" /\ q.version},
       createOk \in BOOLEAN :
        LET s0 == [bot |-> 0, isConnected |-> FALSE, isConnecting |-> FALSE,
                   reconnectAttempts |-> 0, lastConnectionParams |-> p,
                   movements |-> FALSE,
                   inst |-> [i \in 1..(MaxInstances + 1) |-> NoInstance],
                   nInst |-> 0, timers |-> 0, delay |-> 0,
                   awaiting |-> 0,
                   terminalErrors |-> 0, area |-> a, job |-> j,
                   notes |-> {}, server |-> [v EXCEPT !.connectionParams = p],
                   frame |-> f, autoAttempts |-> 0, connectCalls |-> 0,
                   pendingCall |-> NoPending]
            r == setupBot(s0, createOk)
            s == IF r.out = "rejected"
                 THEN [r.s EXCEPT !.server.unhandled = TRUE] ELSE r.s
        IN /\ bot = s.bot
           /\ isConnected = s.isConnected
           /\ isConnecting = s.isConnecting
           /\ reconnectAttempts = s.reconnectAttempts
           /\ lastConnectionParams = s.lastConnectionParams
           /\ movements = s.movements
           /\ inst = s.inst
           /\ nInst = s.nInst
           /\ timers = s.timers
           /\ delay = s.delay
           /\ awaiting = s.awaiting
           /\ terminalErrors = s.terminalErrors
           /\ area = s.area
           /\ job = s.job
           /\ notes = s.notes
           /\ server = s.server
           /\ frame = s.frame
           /\ autoAttempts = s.autoAttempts
           /\ connectCalls = s.connectCalls
           /\ pendingCall = s.pendingCall
           /\ last = NoCall

Init == Constructor(NoArea, NoJob, NoFrame, NoServer)

\* ------------------------------------------------------- instance events
\* The handlers setupBot attaches to an instance; i is the instance that
\* emits the event.

\* A spawn handler that keeps the reconnect counter.
onSpawnKeepsCount(s, i, mov) ==
    settle(setupMovements([logDebug(s, "Bot spawned successfully")
                               EXCEPT !.isConnected = TRUE,
                                      !.isConnecting = FALSE,
                                      !.autoAttempts = 0], mov), i)

\* bot.once("spawn")
onSpawn(s, i, mov) ==
    settle(setupMovements([logDebug(s, "Bot spawned successfully")
                               EXCEPT !.isConnected = TRUE,
                                      !.isConnecting = FALSE,
                                      !.reconnectAttempts = 0,
                                      !.autoAttempts = 0], mov), i)

\* bot.on("error"): reject(error) does nothing on a promise that is
\* settled; on a pending one it settles the connect() call that awaits it,
\* and when nothing awaits it the rejection is unhandled.
onError(s, i) ==
    LET s1 == [logError(s, "Bot error") EXCEPT !.isConnecting = FALSE,
                                               !.inst[i].settled = TRUE]
    IN IF s.inst[i].settled THEN s1
       ELSE IF s.awaiting = i THEN settle(s1, i)
       ELSE exit(s1)

\* bot.on("kicked")
onKicked(s, i) ==
    handleDisconnect([logError(s, "Bot kicked") EXCEPT !.isConnecting = FALSE])

\* An end handler that leaves the connecting flag as it is.
onEndKeepsConnecting(s, i) ==
    disconnectHandler(handleDisconnect(logError(s, "Bot connection ended")), i)

\* bot.on("end")
onEnd(s, i) ==
    disconnectHandler(handleDisconnect([logError(s, "Bot connection ended")
                                            EXCEPT !.isConnecting = FALSE]),
                      i)

Spawn(i) ==
    /\ inst[i].st = "pending" /\ ~inst[i].kicked
    /\ \E mov \in MovementsOutcomes :
           Turn(onSpawn([Sup EXCEPT !.inst[i].st = "spawned",
                                      !.inst[i].entity = TRUE,
                                      !.inst[i].settled = TRUE], i, mov))
    /\ last' = NoCall

\* An error before the spawn is the failure of the attempt.
Error(i) ==
    /\ inst[i].st \in {"pending", "spawned", "closing"}
    /\ Turn(onError([Sup EXCEPT !.inst[i].errored =
                                      (inst[i].st = "pending")], i))
    /\ last' = NoCall

\* The server closes the connection after a kick, so the end event of the
\* same instance follows.
Kicked(i) ==
    /\ inst[i].st \in {"pending", "spawned"}
    /\ ~inst[i].kicked
    /\ Turn(onKicked([Sup EXCEPT !.inst[i].kicked = TRUE], i))
    /\ last' = NoCall

End(i) ==
    /\ inst[i].st \in {"pending", "spawned", "closing"}
    /\ Turn(onEnd([Sup EXCEPT !.inst[i] = Ended(inst[i], bot = i)], i))
    /\ last' = NoCall

\* ------------------------------------------------------------------ time
TimerFires(maxInst) ==
    /\ timers > 0
    /\ (~isConnected /\ ~isConnecting) => nInst < maxInst
    /\ \E createOk \in BOOLEAN :
           Turn(reconnectTimer([Sup EXCEPT !.timers = timers - 1], createOk))
    /\ last' = NoCall

\* --------------------------------------------------------- facade calls
\* The callers' code runs in callbacks of its own, so connect(),
\* disconnect() and the start of a facade call may come before the queued
\* continuation of an earlier connect() has run.
Connect(host, port, username) ==
    /\ LET r == connect(Sup, host, port, username)
       IN /\ Commit(r.s)
          /\ last' = [op |-> "connect", arg |-> "", args |-> "",
                      out |-> r.out, resp |-> NoResponse,
                      message |-> "", issues |-> <<>>, passed |-> NoPassed]

\* The queued continuation of a connect() call runs: the call is rejected.
ConnectResumes ==
    /\ connectCalls > 0
    /\ Commit(connectResumes(Sup))
    /\ last' = [op |-> "connect", arg |-> "", args |-> "",
                out |-> "rejected", resp |-> NoResponse,
                message |-> "", issues |-> <<>>, passed |-> NoPassed]

Disconnect ==
    /\ Commit(disconnect(Sup))
    /\ last' = [op |-> "disconnect", arg |-> "", args |-> "",
                out |-> "ok", resp |-> NoResponse,
                message |-> "", issues |-> <<>>, passed |-> NoPassed]

\* The caller has taken the answer of its last call: the call it makes next
\* is a new one.
Answered ==
    /\ last # NoCall
    /\ Commit(Sup)
    /\ last' = NoCall

\* One call of the facade or of a tool is in flight at a time, and a caller
\* makes a call after it has taken the answer of the one before.
FacadeCall(op, lib) ==
    /\ pendingCall.op = ""
    /\ last = NoCall
    /\ \E r \in {facade(Sup, op, "", lib)} :
          /\ Commit(r.s)
          /\ last' = [op |-> "facade", arg |-> op, args |-> "",
                      out |-> Condition(r), resp |-> NoResponse,
                      message |-> "", issues |-> <<>>, passed |-> NoPassed]

\* The promise the facade call in flight awaits settles.
FacadeSettles ==
    /\ pendingCall.op # "" /\ pendingCall.tool = ""
    /\ \E lib \in SUBSET FactsOf(Program[pendingCall.op],
                                    pendingCall.pc) :
           \E r \in {facadeResumes(Sup, lib)} :
              /\ Turn(r.s)
              /\ last' = [op |-> "facade", arg |-> pendingCall.op,
                          args |-> "", out |-> Condition(r),
                          resp |-> NoResponse, message |-> "",
                          issues |-> <<>>, passed |-> NoPassed]

\* The facts a tool call may meet before its first await.
ToolFacts(name, args) ==
    IF name \in DispatchedTools /\ args = "valid"
    THEN SUBSET FactsOf(Program[HandlerOp[name]], 0)
    ELSE {{}}

CallTool(name, args, lib) ==
    /\ pendingCall.op = ""
    /\ last = NoCall
    /\ \E r \in {callTool(Sup, name, args, lib)} :
          /\ Turn(r.s)
          /\ last' = [op |-> "callTool", arg |-> name,
                      args |-> Class(name, args),
                      issues |-> IF args.given /\ name \in SwitchCases
                                 THEN parse(Schema(name), args)
                                 ELSE <<>>,
                      out |-> r.call, resp |-> r.resp,
                      message |-> r.message, passed |-> NoPassed]

\* A tools/call request to the server of server.ts.
CallToolPlain(name, args, lib) ==
    /\ pendingCall.op = ""
    /\ last = NoCall
    /\ \E r \in {callToolPlain(Sup, name, args, lib)} :
          /\ Turn(r.s)
          /\ last' = [op |-> "callToolPlain", arg |-> name,
                      args |-> Class(name, args),
                      issues |-> IF args.given /\ name \in PlainCases
                                 THEN parse(PlainSchema(name), args)
                                 ELSE <<>>,
                      out |-> r.call, resp |-> r.resp,
                      message |-> r.message, passed |-> NoPassed]

\* The promise the handler of the tool call in flight awaits settles.
ToolSettles ==
    /\ pendingCall.tool # ""
    /\ \E lib \in SUBSET FactsOf(Program[pendingCall.op],
                                    pendingCall.pc) :
           \E r \in {handleResumes(Sup, lib)} :
              /\ Turn(r.s)
              /\ last' = [op |-> "callTool", arg |-> pendingCall.tool,
                          args |-> "valid", out |-> r.call, resp |-> r.resp,
                          message |-> r.message,
                          issues |-> <<>>, passed |-> NoPassed]

\* A resources/read request, with the facts the resource's method meets.
ReadResource(uri) ==
    /\ last = NoCall
    /\ \E lib \in IF uri \in Catalog
                   THEN SUBSET FactsOf(Program[ResourceOp[ResourceName(uri)]],
                                       0)
                   ELSE {{}} :
          \E r \in {readResource(Sup, uri, lib)} :
             /\ Turn(r.s)
             /\ last' = [op |-> "readResource", arg |-> uri, args |-> "",
                         out |-> r.call, resp |-> r.resp,
                         message |-> "", issues |-> <<>>, passed |-> NoPassed]

Next ==
    \/ \E i \in 1..MaxInstances : Spawn(i)
    \/ \E i \in 1..MaxInstances : Error(i)
    \/ \E i \in 1..MaxInstances : Kicked(i)
    \/ \E i \in 1..MaxInstances : End(i)
    \/ TimerFires(MaxInstances)
    \/ \E h \in Hosts, p \in Ports, u \in Usernames : Connect(h, p, u)
    \/ ConnectResumes
    \/ Disconnect

Spec == Init /\ [][Next]_vars

\* A connection attempt comes to an end: the pending instance spawns, emits
\* an error, is kicked or ends.
AttemptSettles(i) ==
    /\ inst[i].st = "pending" /\ ~inst[i].errored /\ ~inst[i].kicked
    /\ (Spawn(i) \/ Error(i) \/ Kicked(i) \/ End(i))

\* The connection of an instance that was kicked ends.
KickEnds(i) == inst[i].kicked /\ End(i)

\* The supervisor with the fairness its environment provides: a queued
\* continuation runs, a pending timer fires, an attempt spawns, errors or
\* ends, a kicked connection ends.  The calls of connect() and disconnect()
\* are the caller's choice.
SpecLive ==
    /\ Spec
    /\ WF_vars(ConnectResumes)
    /\ WF_vars(TimerFires(MaxInstances))
    /\ \A i \in 1..MaxInstances :
           WF_vars(AttemptSettles(i)) /\ WF_vars(KickEnds(i))

\* The connection's life as the callers of the facade and of the router
\* meet it: the events of the instances, the reconnect timers, the
\* connect() calls the facade makes itself, and disconnect().
NextConnection ==
    \/ \E i \in 1..MaxCallInstances : Spawn(i)
    \/ \E i \in 1..MaxCallInstances : Error(i)
    \/ \E i \in 1..MaxCallInstances : Kicked(i)
    \/ \E i \in 1..MaxCallInstances : End(i)
    \/ TimerFires(MaxCallInstances)
    \/ ConnectResumes
    \/ Disconnect

\* The supervisor together with the callers of the facade's methods, at any
\* point of the connection's life.
NextCalls ==
    \/ NextConnection
    \/ \E op \in FacadeOps :
           \E lib \in SUBSET FactsOf(Program[op], 0) : FacadeCall(op, lib)
    \/ FacadeSettles
    \/ Answered

SpecCalls == Init /\ [][NextCalls]_vars

\* The supervisor together with the router's resource reads, at any point
\* of the connection's life.
NextResources ==
    \/ NextConnection
    \/ \E uri \in Catalog \cup {"minecraft://nowhere"} : ReadResource(uri)
    \/ Answered

SpecResources == Init /\ [][NextResources]_vars

\* The supervisor together with the router's tool calls, at any point of the
\* connection's life: calls without arguments, with an object that meets
\* the schema and with the empty object.
NextTools ==
    \/ NextConnection
    \/ \E name \in DispatchedTools \cup {"no_such_tool"} :
           \E args \in {Args(FALSE, {}, {}), Args(TRUE, {}, {}),
                         Args(TRUE, {Schema(name)[i].path :
                                        i \in 1..Len(Schema(name))}, {})} :
              \E lib \in ToolFacts(name, Class(name, args)) :
                 CallTool(name, args, lib)
    \/ ToolSettles
    \/ Answered

SpecTools == Init /\ [][NextTools]_vars

\* The router asked for every name the listing returns and every name the
\* switch knows, on a supervisor whose first instance spawns, ends or is
\* dropped by disconnect().
CatalogNames == MINECRAFT_TOOLS \cup SwitchCases \cup {"no_such_tool"}

NextCatalog ==
    \/ Spawn(1)
    \/ End(1)
    \/ Disconnect
    \/ ConnectResumes
    \/ \E name \in CatalogNames :
           \E args \in Arguments(name) :
              \E lib \in ToolFacts(name, Class(name, args)) :
                 CallTool(name, args, lib)
    \/ \E name \in CatalogNames :
           \E args \in Arguments(name) :
              \E lib \in ToolFacts(name, Class(name, args)) :
                 CallToolPlain(name, args, lib)
    \/ ToolSettles
    \/ Answered

SpecCatalog == Init /\ [][NextCatalog]_vars

\* ---------------------------------------------------------- area job steps
Blocks(n) == [1..n -> {"empty", "block"}]

\* The boxes the jobs are run on: rows of up to MaxBlocks positions.
Origin == [x |-> 0, y |-> 0, z |-> 0]
RowEnds == {[Origin EXCEPT !.x = n] : n \in 0..(MaxBlocks - 1)}

DigArea(start, end) ==
    /\ job.st = "idle"
    /\ Commit(digArea(Sup, start, end))
    /\ last' = NoCall

DigNavigated(navOk, far) ==
    /\ job.st = "navigating"
    /\ \E blocks \in Blocks(job.total - job.idx) :
           Turn(navigated(Sup, navOk, blocks, far))
    /\ last' = NoCall

DigRelocated(far) ==
    /\ job.st = "relocating"
    /\ \E blocks \in Blocks(job.total - job.idx - 1) :
           Turn(relocated(Sup, blocks, far))
    /\ last' = NoCall

\* What digBlock can end with at each of its awaits: after the move the
\* block is gone or indestructible, a dig call rejects, after the pause
\* the block is air; this.bot.blockAt throws when this.bot is null.
Endings(st, b) ==
    IF st = "digging" THEN (IF b = 0 THEN {"lost"}
                            ELSE {"gone", "indestructible"})
    ELSE IF st = "dig" THEN {"skipped", "failed"}
    ELSE IF st = "delay" THEN (IF b = 0 THEN {"lost"} ELSE {"dug"})
    ELSE {}

DigCall ==
    /\ job.st \in {"digging", "delay"}
    /\ bot # 0
    /\ Turn(dig(Sup))
    /\ last' = NoCall

DigResolves ==
    /\ job.st = "dig"
    /\ Turn(dug(Sup))
    /\ last' = NoCall

DigSettled(o, due, far) ==
    /\ o \in Endings(job.st, bot)
    /\ \E blocks \in Blocks(job.total - job.idx - 1) :
           Turn(settled(Sup, o, due, blocks, far))
    /\ last' = NoCall

\* A digArea call together with the events of the connection it runs on.
NextDig ==
    \/ \E i \in 1..MaxDigInstances : Spawn(i)
    \/ \E i \in 1..MaxDigInstances : End(i)
    \/ TimerFires(MaxDigInstances)
    \/ Disconnect
    \/ ConnectResumes
    \/ \E end \in RowEnds : DigArea(Origin, end)
    \/ \E navOk \in BOOLEAN, far \in BOOLEAN : DigNavigated(navOk, far)
    \/ \E far \in BOOLEAN : DigRelocated(far)
    \/ DigCall
    \/ DigResolves
    \/ \E o \in DigResolved \cup DigThrown, due \in BOOLEAN, far \in BOOLEAN :
           DigSettled(o, due, far)

SpecDig == Init /\ [][NextDig]_vars

\* The steps of the digArea call itself.  Every await of the call settles:
\* a goto resolves or rejects, bot.dig resolves or rejects, the timer of the
\* pause fires; so the call is not suspended forever at a step it can take.
DigSteps ==
    \/ \E navOk \in BOOLEAN, far \in BOOLEAN : DigNavigated(navOk, far)
    \/ \E far \in BOOLEAN : DigRelocated(far)
    \/ DigCall
    \/ DigResolves
    \/ \E o \in DigResolved \cup DigThrown, due \in BOOLEAN, far \in BOOLEAN :
           DigSettled(o, due, far)

SpecDigLive == SpecDig /\ WF_vars(DigSteps) /\ WF_vars(ConnectResumes)

\* The listing of the positions on its own: the corners are drawn from
\* Corners and digArea lists the positions of the box they span.
InitSweep ==
    \E start \in Corners, end \in Corners :
        Constructor([NoArea EXCEPT !.start = start, !.end = end], NoJob,
                    NoFrame, NoServer)

ListPositions ==
    /\ ~area.listed
    /\ area' = [area EXCEPT !.positions = Positions(area.start, area.end),
                            !.listed = TRUE]
    /\ UNCHANGED <<bot, isConnected, isConnecting, reconnectAttempts,
                   lastConnectionParams, movements, inst, nInst, timers,
                   delay, awaiting, terminalErrors, last, job, notes, server,
                   frame, autoAttempts, connectCalls, pendingCall>>

NextSweep == ListPositions

SpecSweep == InitSweep /\ [][NextSweep]_vars

\* The server around the supervisor: either server class, constructed with
\* or without connection parameters (new MinecraftServer() hands the
\* supervisor the parameters of a local server), is started once, at any
\* point of the connection's life.
InitServer ==
    \E impl \in {"core", "plain"}, hasParams \in BOOLEAN :
        \E p \in IF hasParams
                 THEN {q \in ConnectionParamsSet :
                          q.host = "h1" /\ ~q.version}
                 ELSE {[host |-> "localhost", port |-> 25565,
                        username |-> "bot", version |-> FALSE]} :
            /\ impl = "plain" => hasParams
            /\ Constructor(NoArea, NoJob, NoFrame,
                           [NoServer EXCEPT !.impl = impl,
                                            !.hasParams = hasParams,
                                            !.connectionParams = p])

\* start() is called, in the turn of the constructor or in a later one, and
\* runs up to its first await.
Start ==
    /\ server.st = "new"
    /\ connectCalls = 0
    /\ Assign(startServer(Sup))
    /\ last' = [op |-> "start", arg |-> "", args |-> "", out |-> "",
                resp |-> NoResponse, message |-> "",
                issues |-> <<>>, passed |-> NoPassed]

\* The promise of the connect call is settled and start goes on, in the
\* same turn.
StartConnected ==
    /\ server.st \in {"connectReturned", "connectSuspended"}
    /\ Assign(startConnected(Sup))
    /\ last' = [op |-> "start", arg |-> "", args |-> "", out |-> "",
                resp |-> NoResponse, message |-> "",
                issues |-> <<>>, passed |-> NoPassed]

\* The promise of server.connect(transport) is settled and start goes on.
StartServed(transportOk) ==
    /\ server.st = "serving"
    /\ connectCalls = 0
    /\ Assign(startServed(Sup, transportOk))
    /\ last' = [op |-> "start", arg |-> "", args |-> "", out |-> "",
                resp |-> NoResponse, message |-> "",
                issues |-> <<>>, passed |-> NoPassed]

\* The rejection the constructor left unhandled ends the process when the
\* turn is over: before start is called, while start awaits the transport,
\* or after start has ended.
UnhandledRejection ==
    /\ server.unhandled
    /\ server.st \in {"new", "serving", "running", "failed"}
    /\ Assign(exit(Sup))
    /\ last' = NoCall

\* The events of the instances come in turns of their own: none comes
\* between the call of connect and the continuation of start.
NextServer ==
    \/ /\ server.st \notin {"connectReturned", "connectSuspended"}
       /\ \/ \E i \in 1..MaxServerInstances : Spawn(i)
          \/ \E i \in 1..MaxServerInstances : Error(i)
          \/ \E i \in 1..MaxServerInstances : Kicked(i)
          \/ \E i \in 1..MaxServerInstances : End(i)
          \/ TimerFires(MaxServerInstances)
          \/ Disconnect
    \/ Start
    \/ StartConnected
    \/ \E transportOk \in BOOLEAN : StartServed(transportOk)
    \/ UnhandledRejection

SpecServer == InitServer /\ [][NextServer]_vars

\* The handlers of the relative tools, called with offsets drawn from
\* Offsets while the connection comes and goes.
Offsets == [dx : HalfBlocks, dy : Heights, dz : Heights]

HandleNavigateRelative(lib) ==
    /\ pendingCall.op = ""
    /\ last = NoCall
    /\ LET h == handle(Sup, "navigate_relative", lib)
       IN /\ Turn(h.s)
          /\ \E o \in Offsets :
                 last' = [op |-> "handler", arg |-> "navigate_relative",
                          args |-> "valid", out |-> h.call, resp |-> h.resp,
                          message |-> h.message,
                          issues |-> <<>>,
                          passed |-> handleNavigateRelative(o.dx, o.dy, o.dz)]

HandleDigAreaRelative(lib) ==
    /\ pendingCall.op = ""
    /\ last = NoCall
    /\ LET h == handle(Sup, "dig_area_relative", lib)
       IN /\ Turn(h.s)
          /\ \E start \in Offsets, end \in Offsets :
                 last' = [op |-> "handler", arg |-> "dig_area_relative",
                          args |-> "valid", out |-> h.call, resp |-> h.resp,
                          message |-> h.message,
                          issues |-> <<>>,
                          passed |-> handleDigAreaRelative(start, end)]

NextHandlers ==
    \/ Spawn(1)
    \/ End(1)
    \/ \E lib \in ToolFacts("navigate_relative", "valid") :
           HandleNavigateRelative(lib)
    \/ \E lib \in ToolFacts("dig_area_relative", "valid") :
           HandleDigAreaRelative(lib)
    \/ ToolSettles
    \/ Answered

SpecHandlers == Init /\ [][NextHandlers]_vars

\* The transform on its own: the position and yaw of the entity and the
\* offset of the command are drawn from their ranges, and the command turns
\* them into a block and a goal.
InitTransform ==
    \E ox \in HalfBlocks, oy \in Heights, oz \in HalfBlocks, yaw \in Yaws,
       dx \in HalfBlocks, dy \in Heights, dz \in HalfBlocks :
        Constructor(NoArea, NoJob,
                    [NoFrame EXCEPT !.origin = [x |-> ox, y |-> oy, z |-> oz],
                                    !.yaw = yaw,
                                    !.offset = [dx |-> dx, dy |-> dy,
                                                dz |-> dz]],
                    NoServer)

Transform ==
    /\ ~frame.applied
    /\ frame' = [frame EXCEPT
                    !.block = relativeToAbsolute(frame.origin, frame.yaw,
                                                 frame.offset.dx,
                                                 frame.offset.dy,
                                                 frame.offset.dz),
                    !.goal = navigateRelative(frame.origin, frame.yaw,
                                              frame.offset.dx,
                                              frame.offset.dy,
                                              frame.offset.dz),
                    !.applied = TRUE]
    /\ UNCHANGED <<bot, isConnected, isConnecting, reconnectAttempts,
                   lastConnectionParams, movements, inst, nInst, timers,
                   delay, awaiting, terminalErrors, last, area, job, notes,
                   server, autoAttempts, connectCalls, pendingCall>>

NextTransform == Transform

SpecTransform == InitTransform /\ [][NextTransform]_vars

Instances == 1..(MaxInstances + 1)

\* ---------------------------------------------------------------- claims

\* C1: in every reachable state at most one instance is live, and it is the
\* one the supervisor holds: an instance that was replaced or dropped has
\* had end() called on it (or has ended) before the next one was created.
C1_AtMostOneLive ==
    \A i \in Instances : Live(i) => bot = i

\* A reconnect replaced an instance that was still live: the old one is
\* closing, the new one is live.
C1_Witness ==
    \E i \in Instances :
        /\ inst[i].st = "closing"
        /\ bot > i
        /\ Live(bot)

\* The supervisor's own fields.
Fields == <<bot, isConnected, isConnecting, reconnectAttempts,
            lastConnectionParams, movements, timers, awaiting>>

\* An attempt is pending: the held instance has been created and has not
\* yet spawned, errored, been kicked or ended.
PendingAttempt ==
    /\ bot # 0
    /\ inst[bot].st = "pending"
    /\ ~inst[bot].errored
    /\ ~inst[bot].kicked

\* C2: while an attempt is pending no second attempt starts (no instance is
\* created), the pending instance is not torn down by a timer or an implicit
\* reconnect (end() is called on it by an explicit disconnect() only), and
\* a connect() call returns without changing anything.
C2_SingleAttempt ==
    [][PendingAttempt =>
          /\ nInst' = nInst
          /\ inst'[bot].st = "closing" => last'.op = "disconnect"
          /\ last'.op = "connect" =>
                 last'.out = "returned" /\ UNCHANGED Fields]_vars

\* The held instance i signals the loss of its connection: it ends or it is
\* kicked.
Lost(i) ==
    /\ bot = i
    /\ \/ inst[i].st \in {"pending", "spawned"} /\ inst'[i].st = "ended"
       \/ ~inst[i].kicked /\ inst'[i].kicked

\* C3: an end or kicked signal of the held instance with attempts left
\* increments the counter and schedules one reconnect with the linear
\* backoff delay; when a reconnect timer fires and nothing has connected or
\* started connecting meanwhile, the supervisor is Connecting with a fresh
\* instance created with the stored parameters.
C3_Reconnects ==
    [][/\ \A i \in Instances :
             Lost(i) /\ reconnectAttempts < maxReconnectAttempts =>
                 /\ reconnectAttempts' = reconnectAttempts + 1
                 /\ timers' = timers + 1
                 /\ delay' = BackoffBaseMs * reconnectAttempts'
                 /\ ~isConnected'
       /\ timers' = timers - 1 /\ ~isConnected /\ ~isConnecting =>
             /\ isConnecting' /\ ~isConnected'
             /\ nInst' = nInst + 1
             /\ bot' = nInst'
             /\ inst'[bot'].st = "pending"
             /\ inst'[bot'].params = lastConnectionParams
             /\ reconnectAttempts' = reconnectAttempts]_vars

\* C4: once the terminal error has been written it is not written again,
\* and no instance is created until an explicit connect.
C4_TerminalOnce ==
    [][terminalErrors >= 1 =>
          /\ terminalErrors' = terminalErrors
          /\ nInst' = nInst \/ last'.op = "connect"]_vars

\* C5: a connect() call made while no attempt is flagged leaves the
\* supervisor Connecting with a new instance created with the parameters of
\* the call.
C5_ConnectStartsAttempt ==
    last.op = "connect" /\ last.out \notin {"returned", "rejected"} =>
        /\ isConnecting
        /\ bot # 0
        /\ inst[bot].st = "pending"
        /\ inst[bot].params = lastConnectionParams

\* C6: the spawn of an instance makes the supervisor Connected with the
\* connecting flag cleared and the counter at zero; the counter is zero
\* whenever the supervisor is Connected, so the next loss has the whole
\* budget.
C6_SpawnConnects ==
    /\ [](isConnected => reconnectAttempts = 0)
    /\ [][\A i \in Instances :
              inst[i].st = "pending" /\ inst'[i].st = "spawned" =>
                  /\ isConnected'
                  /\ ~isConnecting'
                  /\ reconnectAttempts' = 0]_vars

\* A reconnect attempt has spawned.
C6_Witness ==
    /\ bot >= 2
    /\ inst[bot].st = "spawned"
    /\ isConnected

\* C7: after an explicit disconnect() (no instance is held) and until an
\* explicit connect, no reconnect is scheduled, the counter does not grow
\* and no instance is created.
C7_DisconnectStaysDown ==
    [][bot = 0 /\ last'.op # "connect" =>
          /\ timers' <= timers
          /\ reconnectAttempts' <= reconnectAttempts
          /\ nInst' = nInst]_vars

\* The connection of the held instance is down: no instance is held after
\* a disconnect(), or the held instance has ended or has been kicked.
Down == bot = 0 \/ inst[bot].st = "ended" \/ inst[bot].kicked

Failures == {"NotConnected", "ActionFailed", "LibraryError"}

\* C8: a facade operation invoked while the connection is down ends with
\* the NotConnected condition: it neither returns nor goes on to await the
\* library.
C8_DownMeansNotConnected ==
    [][Down /\ pendingCall.op = "" /\ last'.op = "facade" =>
          last'.out = "NotConnected"]_vars

\* C9: a tool call that reaches the facade while the connection is down
\* ends with the NotConnected condition and leaves the connected flag, the
\* connecting flag, the counter, the held instance and the stored
\* parameters as they were.
C9_ToolWhileDown ==
    [][/\ Down
       /\ pendingCall.op = ""
       /\ last'.op = "callTool"
       /\ last'.out # "none"
       =>
          /\ last'.out = "NotConnected"
          /\ UNCHANGED <<bot, isConnected, isConnecting, reconnectAttempts,
                         lastConnectionParams, inst>>]_vars

\* C10: a tool call whose facade operation fails is answered with a tool
\* result that has isError set and one text segment, not with a
\* protocol-level error.
C10_FailureIsResult ==
    last.op = "callTool" /\ last.out \in Failures =>
        /\ last.resp.kind = "result"
        /\ last.resp.isError
        /\ last.resp.segments = 1

\* C11: a tool call with an unknown tool name or without arguments is
\* answered with a protocol-level error, not with a content payload.
C11_StructuralIsProtocolError ==
    /\ last.op = "callTool"
    /\ last.args = "missing" \/ last.arg \notin DispatchedTools
    => last.resp.kind = "error"

InvalidParams == 0 - 32602

\* text.includes(word)
Includes(text, word) ==
    \E i \in 1..(Len(text) - Len(word) + 1) :
        SubSeq(text, i, i + Len(word) - 1) = word

\* C12: a call of a known tool whose arguments fail the schema is rejected
\* with the protocol-level error InvalidParams, which names the path of
\* every field that failed; it reaches no facade operation and leaves the
\* supervisor and its instances as they were.
C12_InvalidArguments ==
    [][/\ last'.op = "callTool"
       /\ last'.args = "invalid"
       /\ last'.arg \in DispatchedTools
       => /\ last'.out = "none"
          /\ last'.resp.kind = "error"
          /\ last'.resp.code = InvalidParams
          /\ \A i \in 1..Len(last'.issues) :
                 Includes(last'.resp.text, join(last'.issues[i].path, "."))
          /\ UNCHANGED <<bot, isConnected, isConnecting, reconnectAttempts,
                         lastConnectionParams, movements, inst, nInst,
                         timers, awaiting>>]_vars

\* C13: a read of a URI of the catalog is answered with one content block
\* carrying that URI, and a read of any other URI with a protocol-level
\* error, not with a content block.
C13_ResourceRead ==
    last.op = "readResource" =>
        IF last.arg \in Catalog
        THEN /\ last.resp.kind = "contents"
             /\ last.resp.segments = 1
             /\ last.resp.uri = last.arg
        ELSE last.resp.kind = "error"

\* The box spanned by the corners of area.
Lo(c) == Min(area.start[c], area.end[c])
Hi(c) == Max(area.start[c], area.end[c])
Volume == (Hi("x") - Lo("x") + 1) * (Hi("y") - Lo("y") + 1)
              * (Hi("z") - Lo("z") + 1)

\* C14: the listed positions never go up in y from one element to the
\* next, go x then z inside a layer, are as many as the box has cells,
\* hold no position twice, and are the same with the corners swapped.
C14_SweepOrder ==
    area.listed =>
        LET ps == area.positions
        IN /\ \A i \in 1..(Len(ps) - 1) :
                  \/ ps[i].y > ps[i + 1].y
                  \/ /\ ps[i].y = ps[i + 1].y
                     /\ \/ ps[i].x < ps[i + 1].x
                        \/ ps[i].x = ps[i + 1].x /\ ps[i].z < ps[i + 1].z
           /\ Len(ps) = Volume
           /\ \A i, j \in 1..Len(ps) : ps[i] = ps[j] => i = j
           /\ \A i \in 1..Len(ps) :
                  /\ ps[i].x \in Lo("x")..Hi("x")
                  /\ ps[i].y \in Lo("y")..Hi("y")
                  /\ ps[i].z \in Lo("z")..Hi("z")
           /\ ps = Positions(area.end, area.start)

\* The positions of a box of more than one layer, whose first corner is
\* the higher one in x and z, have been listed.
C14_Witness ==
    /\ area.listed
    /\ area.start.x > area.end.x
    /\ area.start.z > area.end.z
    /\ area.start.y < area.end.y
    /\ Len(area.positions) >= 8

\* C15: every empty position visited by the sweep is counted as completed,
\* and bot.dig is called for positions that held a block only: the
\* positions dug and the empty positions together never exceed the
\* positions the loop is done with or at.
C15_EmptyCountedNotDug ==
    /\ job.blocksDug >= job.empties
    /\ job.digs + job.empties
           <= job.idx + (IF job.st \in {"dig", "delay"} THEN 1 ELSE 0)
    /\ job.digs <= job.total - job.empties

\* A sweep over empty positions and a block that was dug has ended.
C15_Witness ==
    /\ job.st = "done"
    /\ job.empties >= 1
    /\ job.digs >= 1
    /\ job.idx = job.total

\* The last call of progressCallback.
Final == job.emissions[Len(job.emissions)]

\* C16: a digArea call that resolves has made a last progress emission
\* with progress 100 and as many blocks completed as the box holds.
C16_FinalEmission ==
    job.st = "done" /\ job.outcome = "resolved" =>
        /\ job.emissions # <<>>
        /\ Final.progress = 100
        /\ Final.blocksDug = Final.totalBlocks

\* C17: the progress emissions of a job never go down in blocksDug from
\* one to the next and never exceed the number of positions.
C17_EmissionsMonotonic ==
    \A n \in 1..Len(job.emissions) :
        /\ job.emissions[n].blocksDug <= job.emissions[n].totalBlocks
        /\ job.emissions[n].totalBlocks = job.total
        /\ \A m \in 1..n :
               job.emissions[m].blocksDug <= job.emissions[n].blocksDug

\* Progress was emitted at two different counts before the job ended.
C17_Witness ==
    /\ Len(job.emissions) >= 3
    /\ job.emissions[1].blocksDug < job.emissions[2].blocksDug
    /\ job.st = "done"

\* The instance the job runs on is still held and has not ended.
Up == job.on # 0 /\ bot = job.on /\ inst[bot].st \in {"pending", "spawned"}

\* C18: digBlock is called after the relocation whatever the relocation
\* ended with, no step of the job goes back or drops positions, and a job
\* that ends while its connection is up has visited every position and
\* resolves, whatever the positions ended with.
C18_BlockFailureNotFatal ==
    [][/\ job.st = "relocating" /\ job'.st # "relocating" /\ bot # 0 =>
              job'.st = "digging" /\ job'.idx = job.idx
       /\ job.st \in {"navigating", "relocating", "digging", "dig", "delay"} =>
              job'.idx >= job.idx /\ job'.total = job.total
       /\ job.st # "done" /\ job'.st = "done" /\ Up' =>
              job'.outcome = "resolved" /\ job'.idx = job'.total]_vars

\* A job on a connected instance has resolved although a position failed,
\* after digBlock was called for every position.
C18_Witness ==
    /\ job.st = "done"
    /\ job.outcome = "resolved"
    /\ Up
    /\ inst[bot].st = "spawned"
    /\ job.total >= 2
    /\ job.digs = job.total
    /\ job.blocksDug < job.total

\* The job is suspended at one of its awaits.
Suspended ==
    job.st \in {"navigating", "relocating", "digging", "dig", "delay"}

\* C19: when the instance a suspended job runs on has ended, the step that
\* resumes the job ends it with the Disconnected failure and completes no
\* position beyond the one that was in progress.
C19_StopsOnDisconnect ==
    [][/\ Suspended
       /\ job.disconnected
       /\ job'.idx # job.idx \/ job'.st = "done"
       =>
          /\ job'.st = "done"
          /\ job'.outcome = "Disconnected"
          /\ job'.idx <= job.idx + 1]_vars

\* C20: when digArea has returned, the listener it installed is attached
\* to no instance and the exit path has raised no error of its own.
C20_ListenerRemoved ==
    job.st = "done" /\ job.on # 0 =>
        /\ ~job.listening
        /\ job.outcome # "TypeError"

\* C21: a job that resolves after every block it met was dug by one dig
\* call has made as many dig calls as there were non-empty positions, has
\* completed every position and ends with the emission (100, total, total).
C21_AllDug ==
    job.st = "done" /\ job.outcome = "resolved" /\ job.clean =>
        /\ job.calls = job.total - job.empties
        /\ job.digs = job.calls
        /\ job.blocksDug = job.total
        /\ Final = [progress |-> 100, blocksDug |-> job.total,
                    totalBlocks |-> job.total]

\* A box with one empty position and blocks that were all dug is done.
C21_Witness ==
    /\ job.st = "done"
    /\ job.outcome = "resolved"
    /\ job.clean
    /\ job.total >= 3
    /\ job.empties = 1
    /\ job.calls = job.total - 1
\* The sum of the position and the offset, in half blocks.
Sum ==
    [x |-> frame.origin.x + frame.offset.dx,
     y |-> frame.origin.y + frame.offset.dy,
     z |-> frame.origin.z + frame.offset.dz]

\* C22 as stated: at yaw 0 the target of the transform is the position plus
\* the offset, for the goal of navigateRelative and for the block of
\* relativeToAbsolute alike.
C22_IdentityAtZero ==
    frame.applied /\ frame.yaw = 0 =>
        /\ frame.goal = [x |-> Double(Sum.x, 0), y |-> Double(Sum.y, 0),
                         z |-> Double(Sum.z, 0)]
        /\ 2 * frame.block.x = Sum.x
        /\ 2 * frame.block.y = Sum.y
        /\ 2 * frame.block.z = Sum.z

\* C22 amended: at yaw 0 the goal of navigateRelative is the position plus
\* the offset, and the block of relativeToAbsolute is the block that sum
\* lies in, the sum rounded down on each axis.
C22_IdentityThenFloor ==
    frame.applied /\ frame.yaw = 0 =>
        /\ frame.goal = [x |-> Double(Sum.x, 0), y |-> Double(Sum.y, 0),
                         z |-> Double(Sum.z, 0)]
        /\ 2 * frame.block.x <= Sum.x /\ Sum.x < 2 * frame.block.x + 2
        /\ 2 * frame.block.y <= Sum.y /\ Sum.y < 2 * frame.block.y + 2
        /\ 2 * frame.block.z <= Sum.z /\ Sum.z < 2 * frame.block.z + 2

C22_Witness ==
    /\ frame.applied /\ frame.yaw = 0
    /\ frame.origin.x = 1 /\ frame.offset.dx = 0 - 2
    /\ frame.offset.dz = 2
    /\ frame.block.x = 0 - 1

\* The rotation of the offset by q quarter turns, in exact arithmetic.
Rotated ==
    LET c == CASE frame.yaw = 0 -> 1 [] frame.yaw = 2 -> 0 - 1 [] OTHER -> 0
        t == CASE frame.yaw = 1 -> 1 [] frame.yaw = 3 -> 0 - 1 [] OTHER -> 0
    IN [x |-> frame.origin.x + frame.offset.dx * c - frame.offset.dz * t,
        y |-> frame.origin.y + frame.offset.dy,
        z |-> frame.origin.z + frame.offset.dx * t + frame.offset.dz * c]

\* C23: the target is the position plus the offset rotated by the yaw,
\* worldDx = dx cos(h) - dz sin(h), worldDz = dx sin(h) + dz cos(h), dy
\* unrotated: the goal of navigateRelative is that point and the block of
\* relativeToAbsolute is the block the point lies in; so at a quarter turn
\* an offset to the right moves the target along +Z and not along X.
C23_Rotation ==
    frame.applied =>
        /\ frame.goal.x.m = Rotated.x
        /\ frame.goal.y.m = Rotated.y
        /\ frame.goal.z.m = Rotated.z
        /\ 2 * frame.block.x <= Rotated.x /\ Rotated.x < 2 * frame.block.x + 2
        /\ 2 * frame.block.y <= Rotated.y /\ Rotated.y < 2 * frame.block.y + 2
        /\ 2 * frame.block.z <= Rotated.z /\ Rotated.z < 2 * frame.block.z + 2

\* The status notifications the last step wrote.
Status(status) ==
    {n \in notes : n.method = "server/status" /\ n.status = status}

\* C24: every step that takes the supervisor from connected to disconnected
\* (the end or kicked event of the live instance, or a disconnect call)
\* writes a server/status notification with status disconnected.
C24_DisconnectedNotified ==
    [][isConnected /\ ~isConnected' => Status("disconnected")' # {}]_vars

\* C25: every step that takes the supervisor to connected writes a status
\* notification "connected", and such a notification is written only when
\* the held instance has spawned.
C25_ConnectedNotified ==
    [][/\ ~isConnected /\ isConnected' =>
              \E n \in notes' : n.status = "connected"
       /\ (\E n \in notes' : n.status = "connected") =>
              bot' # 0 /\ inst'[bot'].st = "spawned"]_vars

\* C26: the step that completes the start of the server writes a
\* server/status notification of type startup with status running.
C26_StartupNotified ==
    [][server.st # "running" /\ server'.st = "running" =>
          \E n \in Status("running")' : n.type = "startup"]_vars

\* C27: the step of an error event, which writes the "Bot error"
\* notification, leaves the connected flag, the connecting flag, the attempt
\* counter and the held instance as they were.
C27_ErrorChangesNothing ==
    [][(\E n \in notes' : n.message = "Bot error") =>
          /\ isConnected' = isConnected
          /\ isConnecting' = isConnecting
          /\ reconnectAttempts' = reconnectAttempts
          /\ bot' = bot]_vars

\* C28: a digArea call that has started eventually returns, whatever the
\* blocks do: each dig may succeed, fail, or resolve with the block still
\* in place, as long as the process runs.
C28_DigAreaReturns ==
    (job.st \notin {"idle", "done"})
        ~> (job.st = "done" \/ server.st = "exited")

\* C29: the navigate_relative handler calls navigateRelative with the three
\* offsets and a progress callback, and the dig_area_relative handler calls
\* digAreaRelative with both corners and a progress callback.
C29_RelativeHandlersPass ==
    last.op = "handler" =>
        /\ last.passed.progressCallback
        /\ last.arg = "navigate_relative" =>
               /\ last.passed.method = "navigateRelative"
               /\ Len(last.passed.args) = 3
               /\ [dx |-> last.passed.args[1], dy |-> last.passed.args[2],
                   dz |-> last.passed.args[3]] \in Offsets
        /\ last.arg = "dig_area_relative" =>
               /\ last.passed.method = "digAreaRelative"
               /\ Len(last.passed.args) = 2
               /\ last.passed.args[1] \in Offsets
               /\ last.passed.args[2] \in Offsets

\* The texts the handlers put around a failure message.
Contains(text, m) ==
    \E prefix \in {""} \cup {FailurePrefix[n] : n \in CatchingHandlers},
       suffix \in {"", "\nProgress before error"} :
        text = prefix \o m \o suffix

\* C30: when the facade operation of a tool call fails with message m, the
\* caller gets a tool result with isError set whose text contains m.
C30_FailureTextCarriesMessage ==
    last.op = "callTool" /\ last.message # "" =>
        /\ last.resp.kind = "result"
        /\ last.resp.isError
        /\ Contains(last.resp.text, last.message)

\* The terminal error, if the last step wrote it.
Terminal == {n \in notes : n.message = "Max reconnection attempts reached"}

\* C31: the terminal error is written only when the attempt counter has
\* reached maxReconnectAttempts, never while attempts are left, whether or
\* not an attempt is in progress.
C31_TerminalOnlyWhenExhausted ==
    Terminal # {} => reconnectAttempts = maxReconnectAttempts

\* The held instance has ended with the counter exhausted and the terminal
\* error has been written.
C31_Witness ==
    /\ Terminal # {}
    /\ reconnectAttempts = maxReconnectAttempts
    /\ bot # 0 /\ inst[bot].st = "ended"
    /\ nInst >= 2

\* C32: the attempt a loss of the held instance schedules is the next
\* automatic attempt since the last spawn, attempt number autoAttempts + 1,
\* and it is scheduled BackoffBaseMs times that number after the loss.
C32_LinearBackoff ==
    [][\A i \in Instances :
          Lost(i) /\ timers' = timers + 1 =>
              delay' = BackoffBaseMs * (autoAttempts + 1)]_vars

\* C33: a facade call that ends with NotConnected while no instance is held
\* and no attempt is flagged starts an implicit reconnect attempt: a new
\* instance is created with the last connection parameters and is held.
C33_ImplicitReconnect ==
    [][(/\ last'.op = "facade"
        /\ last'.out = "NotConnected"
        /\ bot = 0
        /\ ~isConnecting)
       => (/\ nInst' = nInst + 1
           /\ bot' = nInst'
           /\ inst'[bot'].st = "pending"
           /\ inst'[bot'].params = lastConnectionParams)]_vars

\* C34: the attempt counter stays between 0 and maxReconnectAttempts in
\* every reachable state, under any sequence of events, timer firings and
\* connect and disconnect calls.
C34_CounterBounded ==
    /\ 0 <= reconnectAttempts
    /\ reconnectAttempts <= maxReconnectAttempts

\* The last step was the loss that took the counter to its maximum: it
\* scheduled the reconnect with the longest delay and wrote no terminal error.
C34_Witness ==
    /\ reconnectAttempts = maxReconnectAttempts
    /\ delay = BackoffBaseMs * maxReconnectAttempts
    /\ timers >= 1
    /\ Terminal = {}

\* C35: the connected flag is set only while the held instance has spawned
\* and not ended, and the end of a superseded instance (one that is no
\* longer held) changes neither flag nor the attempt counter and schedules
\* nothing.
C35_FlagsDescribeHeld ==
    [][/\ isConnected' => (bot' # 0 /\ inst'[bot'].st = "spawned")
       /\ \A i \in Instances :
              (i # bot /\ inst[i].st # "ended" /\ inst'[i].st = "ended")
              => UNCHANGED <<isConnected, isConnecting, reconnectAttempts,
                             timers>>]_vars

\* C36: a reconnect timer that fires, or a facade call that fails, while the
\* held instance is spawned and has not been kicked creates no new instance
\* and leaves the held instance as it is.
C36_LiveConnectionKept ==
    [][(/\ bot # 0
        /\ inst[bot].st = "spawned"
        /\ ~inst[bot].kicked
        /\ (timers' = timers - 1 \/ last'.op = "facade"))
       => (/\ nInst' = nInst
           /\ bot' = bot
           /\ inst'[bot] = inst[bot])]_vars

\* C37: a loss that is signalled twice on the same instance, kicked and then
\* end, consumes one reconnect attempt: the end of an instance that has been
\* kicked leaves the counter and the pending timers as they are; and at most
\* one reconnect timer is pending at any time.
C37_OneAttemptPerLoss ==
    [][/\ timers' <= 1
       /\ \A i \in Instances :
              (inst[i].kicked /\ inst'[i].st = "ended")
              => UNCHANGED <<reconnectAttempts, timers>>]_vars

\* The held instance has failed or was lost: it emitted an error before its
\* spawn, was kicked, or ended.
Failed ==
    /\ bot # 0
    /\ inst[bot].errored \/ inst[bot].kicked \/ inst[bot].st = "ended"

\* The held instance has spawned and is live.
Connected ==
    /\ bot # 0
    /\ inst[bot].st = "spawned" /\ ~inst[bot].kicked
    /\ isConnected

\* C38: after a failed attempt or the loss of the held instance the
\* supervisor eventually holds a spawned, live instance or has reported the
\* terminal failure, provided attempts settle and timers fire, unless the
\* caller drops the connection with disconnect().
C38_EventuallyUpOrTerminal ==
    Failed ~> (Connected \/ terminalErrors > 0 \/ bot = 0)

\* The router answered the last call from the default branch of its switch.
Unknown == last.resp.text = "Unknown tool: " \o last.arg

\* C39: the tool listing and the dispatcher agree: a call of a listed tool
\* with valid arguments is not answered "Unknown tool", and a tool the
\* dispatcher has a case for is listed.
C39_CatalogMatchesDispatcher ==
    last.op = "callTool" =>
        /\ (last.arg \in MINECRAFT_TOOLS /\ last.args = "valid") => ~Unknown
        /\ (last.args # "missing" /\ ~Unknown) => last.arg \in MINECRAFT_TOOLS

====
